---- MODULE Spec2Model ----
(***************************************************************************)
(* Floating train timer (static/js/floating_timer.js).                     *)
(*                                                                         *)
(* Each browser tab runs one FloatingTimer object; the tabs share          *)
(* localStorage (one state slot and one lease slot for the timer key).     *)
(* Every handler of the class runs to completion at one instant `now`,     *)
(* so each handler is one action.  The methods of the class are operators  *)
(* over a record m that holds the fields of the object together with the   *)
(* two storage slots; an action applies the handler's operator to the      *)
(* tab's view and commits the result.                                      *)
(*                                                                         *)
(* Timestamps are integer milliseconds; a null/absent timestamp is 0       *)
(* (the code tests timestamps by truthiness).  Presentation-only fields    *)
(* (savedAt, view, minimized, ring, pacing text) are not carried.          *)
(***************************************************************************)
EXTENDS Integers, Sequences, FiniteSets, TLC

\* ---------------------------------------------------------------- constants
TICK_MS == 250
ACTIVE_TTL_MS == 15000
ACTIVE_PING_MS == 5000
READONLY_CHECK_TICK_MS == 1000
RESET_HOLD_MS == 600
MAX_SECONDS == 14400
\* const pad of clampPos and getCornerAnchors
PAD == 12

\* ------------------------------------------------------------------- bounds
\* value of Date.now() when the first tab is constructed
T0 == 100000
\* number of time advances in one behaviour of Spec, SpecSolo, SpecHold
MaxAdvTabs == 2
\* number of handler runs in one behaviour of Spec (two tabs)
MaxEvents == 5
MaxAdvSolo == 3
MaxAdvHold == 2
\* the +/- buttons are used while remaining stays within this many minutes
\* of the configured default
MaxDrift == 1
\* finish() executions counted since the last start (saturating)
MaxFinishes == 2
\* number of time advances in one behaviour of SpecPoll
MaxAdvPoll == 44
\* number of time advances in one behaviour of SpecReload
MaxAdvReload == 3
\* number of time advances in one behaviour of SpecPair
MaxAdvPair == 2
\* number of drags started in one behaviour of SpecDrag
MaxDrags == 2
MaxAdvLoad == 1
MaxAdvExpiry == 2
\* number of time advances in one behaviour of SpecControls
MaxAdvControls == 1
\* number of handler runs in one behaviour of SpecControls, SpecClock
MaxControls == 4
\* number of time advances in one behaviour of SpecClock
MaxAdvClock == 2
\* number of pointers that go down on the card in one behaviour of SpecCard
MaxPresses == 2
\* number of time advances in one behaviour of SpecAutostart
MaxAdvAutostart == 2
\* number of time advances in one behaviour of SpecAlert
MaxAdvAlert == 1
\* user events of SpecPoll happen before this many time advances have passed
MaxAdvUser == 2

Tabs == {"A", "B"}
SoloTabs == {"A"}
Pointers == {1, 2}
\* data-target-minutes values of the host page
Targets == {1, 90}
OneTarget == {1}
\* time advances explored with one tab / with two tabs (ms); the longest
\* one-tab advance is one second more than MAX_SECONDS
SoloSteps == {250, 60000, 14401000}
HoldSteps == {250, 350}
TabSteps == {250, 15000}
\* with the poll on schedule time advances by half a poll period
PollSteps == {125}
ReloadSteps == {250, 60000}
LoadSteps == {60000}
ExpirySteps == {10000, 50000}
PairSteps == {250, 60000}
ControlSteps == {250, 60000}
ClockSteps == {250, 15000, 60000}
AlertSteps == {250, 60000}
AutostartSteps == {250, 60000}
\* data-target-minutes of a page whose target is the longest time allowed
LongTargets == {1, 240}
\* seconds passed to addExtraSeconds
Extras == {-300, 300}
\* window.innerWidth x innerHeight, and the size of the widget's rect
Viewports == {<<1024, 768>>, <<800, 600>>, <<1280, 1024>>, <<320, 100>>}
Sizes == {<<300, 80>>}
\* clientX, clientY of the pointer when a drag starts / while it moves
DragStarts == {<<0, 0>>}
DragPoints == {<<68, -666>>, <<-350, -332>>, <<-356, 0>>, <<-3, -3>>, <<-700, -700>>}
\* clientX, clientY of pointer moves around the 6px threshold
CardPoints == {<<-3, -3>>, <<5, 3>>, <<5, 4>>, <<6, 0>>, <<-350, -332>>}
OnePointer == {1}

KEY == "timer:train:dashboard"
NoKey == ""

Max(a, b) == IF a >= b THEN a ELSE b
Min(a, b) == IF a <= b THEN a ELSE b

\* Math.ceil(a / b), Math.floor(a / b), Math.round(a / b) for b > 0
CeilDiv(a, b) == -((-a) \div b)
FloorDiv(a, b) == a \div b
RoundDiv(a, b) == (2 * a + b) \div (2 * b)

VARIABLES now, adv, events, currentKey, state, tickHandle, readonly, lastActivePing,
          lastReadonlyTickCheck, resetHoldTimer, resetHoldFired, timers,
          toast, finishes, stored, active, storageEv, unseen, pressedAt, heldLong,
          last, tickDue, widget, pacing, alarm, gesture

vars == <<now, adv, events, currentKey, state, tickHandle, readonly, lastActivePing,
          lastReadonlyTickCheck, resetHoldTimer, resetHoldFired, timers,
          toast, finishes, stored, active, storageEv, unseen, pressedAt, heldLong,
          last, tickDue, widget, pacing, alarm, gesture>>

\* this.state = null, and an empty state slot of localStorage
NullState == [remaining |-> 0, isRunning |-> FALSE, endAt |-> 0,
              defaultSeconds |-> 0, alarmEnabled |-> TRUE,
              overtime |-> FALSE, overtimeStartAt |-> 0]
\* an empty lease slot of localStorage
NoLease == [tabId |-> "", updatedAt |-> 0]

\* a stored value for which Number.isFinite(Number(value)) is false
NotFinite == 2147483647

\* the content of a state slot that JSON.parse rejects, or that is not an
\* object
Malformed == [remaining |-> NotFinite, isRunning |-> FALSE, endAt |-> NotFinite,
              defaultSeconds |-> NotFinite, alarmEnabled |-> FALSE,
              overtime |-> FALSE, overtimeStartAt |-> NotFinite]

\* mutant: no lower limit
clampInt_upperOnly(value, lo, hi) ==
  LET v == IF value = NotFinite THEN 0 ELSE value
  IN  Min(hi, v)

clampInt(value, lo, hi) ==
  LET v == IF value = NotFinite THEN 0 ELSE value
  IN  Max(lo, Min(hi, v))

\* mutant: rounds to the nearest second
computeRemaining_rounds(endAt) ==
  IF endAt = 0 THEN 0 ELSE Max(0, RoundDiv(endAt - now, 1000))

computeRemainingFromEndAt(endAt) ==
  IF endAt = 0 THEN 0 ELSE Max(0, CeilDiv(endAt - now, 1000))

\* mutant: rounds the elapsed overtime up
overtimeElapsed_ceils(s) ==
  Max(0, CeilDiv(now - (IF s.overtimeStartAt # 0 THEN s.overtimeStartAt ELSE now), 1000))

\* elapsed overtime as tick() and render() compute it
overtimeElapsed(s) ==
  Max(0, FloorDiv(now - (IF s.overtimeStartAt # 0 THEN s.overtimeStartAt ELSE now), 1000))

buildInitialState(defaultSeconds) ==
  [remaining |-> defaultSeconds, isRunning |-> FALSE, endAt |-> 0,
   defaultSeconds |-> defaultSeconds, alarmEnabled |-> TRUE,
   overtime |-> FALSE, overtimeStartAt |-> 0]

\* mutant: a loaded state is never running
loadState_notRunning(slot) ==
  IF slot = NullState \/ slot = Malformed THEN NullState
  ELSE [remaining |-> clampInt(slot.remaining, -MAX_SECONDS, MAX_SECONDS),
        isRunning |-> FALSE,
        endAt |-> slot.endAt,
        defaultSeconds |-> clampInt(slot.defaultSeconds, 60, MAX_SECONDS),
        alarmEnabled |-> slot.alarmEnabled,
        overtime |-> slot.overtime,
        overtimeStartAt |-> slot.overtimeStartAt]

\* mutant: the deadline is not restored from the slot
loadState_dropsEndAt(slot) ==
  IF slot = NullState \/ slot = Malformed THEN NullState
  ELSE [remaining |-> clampInt(slot.remaining, -MAX_SECONDS, MAX_SECONDS),
        isRunning |-> slot.isRunning,
        endAt |-> 0,
        defaultSeconds |-> clampInt(slot.defaultSeconds, 60, MAX_SECONDS),
        alarmEnabled |-> slot.alarmEnabled,
        overtime |-> slot.overtime,
        overtimeStartAt |-> slot.overtimeStartAt]

loadState(slot) ==
  IF slot = NullState \/ slot = Malformed THEN NullState
  ELSE [remaining |-> clampInt(slot.remaining, -MAX_SECONDS, MAX_SECONDS),
        isRunning |-> slot.isRunning,
        endAt |-> slot.endAt,
        defaultSeconds |-> clampInt(slot.defaultSeconds, 60, MAX_SECONDS),
        alarmEnabled |-> slot.alarmEnabled,
        overtime |-> slot.overtime,
        overtimeStartAt |-> slot.overtimeStartAt]

\* ------------------------------------------------ the object seen by a handler
View(t) ==
  [key |-> currentKey[t], state |-> state[t], tickHandle |-> tickHandle[t],
   readonly |-> readonly[t], lastActivePing |-> lastActivePing[t],
   lastReadonlyTickCheck |-> lastReadonlyTickCheck[t],
   resetHoldTimer |-> resetHoldTimer[t], resetHoldFired |-> resetHoldFired[t],
   timers |-> timers[t], toast |-> toast[t], finishes |-> finishes[t],
   alarm |-> alarm[t],
   stored |-> stored, active |-> active, wrote |-> {}, adopted |-> FALSE,
   storageFails |-> FALSE]

\* the same object in a browser whose localStorage rejects every write
\* (setItem and removeItem throw, the slots stay empty)
FailingView(t) ==
  [View(t) EXCEPT !.stored = NullState, !.active = NoLease, !.storageFails = TRUE]

\* new FloatingTimer(): the object of a freshly loaded page in the same tab
\* (the tab id is kept in sessionStorage; localStorage is untouched)
newFloatingTimer(m) ==
  [m EXCEPT !.key = NoKey, !.state = NullState, !.tickHandle = FALSE,
            !.readonly = FALSE, !.lastActivePing = 0, !.lastReadonlyTickCheck = 0,
            !.resetHoldTimer = 0, !.resetHoldFired = FALSE, !.timers = {},
            !.toast = "hidden"]

\* ------------------------------------------------------- position of the widget
\* widget holds the position of the container (left, top), this.drag,
\* this.dragLast (hasLast, lastLeft, lastTop), the position slot of
\* localStorage (corner, offsetX, offsetY; corner "" when empty), the
\* position the latest pointermove asked for before clamping (rawLeft,
\* rawTop), the number of drags started, the size of the window (vw, vh),
\* whether the container has an inline position (explicit: style.left and
\* style.top are set), this.posApplied, this.lastDragMoved and the
\* data-minimized attribute of the container.  Coordinates are integers.
NoDrag == [pointerId |-> 0, startX |-> 0, startY |-> 0,
           startLeft |-> 0, startTop |-> 0, moved |-> FALSE]

clampPos(left, top, width, height, vw, vh) ==
  LET maxLeft == Max(PAD, vw - width - PAD)
      maxTop == Max(PAD, vh - height - PAD)
  IN  [left |-> Max(PAD, Min(maxLeft, left)), top |-> Max(PAD, Min(maxTop, top))]

\* the corners in the order Object.entries visits them
Corners == <<"tl", "tr", "bl", "br">>

getCornerAnchors(width, height, vw, vh) ==
  [c \in {"tl", "tr", "bl", "br"} |->
     [left |-> IF c \in {"tl", "bl"} THEN PAD ELSE Max(PAD, vw - width - PAD),
      top |-> IF c \in {"tl", "tr"} THEN PAD ELSE Max(PAD, vh - height - PAD)]]

\* Math.hypot(dx, dy) squared; the code compares the square roots
Hypot2(dx, dy) == dx * dx + dy * dy

RECURSIVE nearestFrom(_, _, _, _, _)
\* the forEach of snapToCorner from corner i on, best being the best so far
nearestFrom(i, best, left, top, anchors) ==
  IF i > Len(Corners) THEN best
  ELSE LET c == Corners[i]
           better == best = ""
                     \/ Hypot2(left - anchors[c].left, top - anchors[c].top)
                        < Hypot2(left - anchors[best].left, top - anchors[best].top)
       IN  nearestFrom(i + 1, IF better THEN c ELSE best, left, top, anchors)

\* mutant: the distances are not compared, the first corner wins
snapToCorner_firstCorner(left, top, width, height, vw, vh) ==
  LET anchors == getCornerAnchors(width, height, vw, vh)
      best == Corners[1]
  IN  [corner |-> best, left |-> left, top |-> top,
       offsetX |-> left - anchors[best].left, offsetY |-> top - anchors[best].top]

snapToCorner(left, top, width, height, vw, vh) ==
  LET anchors == getCornerAnchors(width, height, vw, vh)
      best == nearestFrom(1, "", left, top, anchors)
  IN  [corner |-> best, left |-> left, top |-> top,
       offsetX |-> left - anchors[best].left, offsetY |-> top - anchors[best].top]

onDragStart(w, pointerId, x, y, accepted) ==
  IF ~accepted THEN w
  ELSE [w EXCEPT !.drag = [pointerId |-> pointerId, startX |-> x, startY |-> y,
                           startLeft |-> w.left, startTop |-> w.top, moved |-> FALSE],
                 !.hasLast = TRUE, !.lastLeft = w.left, !.lastTop = w.top,
                 !.rawLeft = w.left, !.rawTop = w.top]

onDragMove(w, pointerId, x, y, width, height, vw, vh) ==
  IF w.drag = NoDrag \/ w.drag.pointerId # pointerId THEN w
  ELSE LET dx == x - w.drag.startX
           dy == y - w.drag.startY
       IN  IF ~w.drag.moved /\ Hypot2(dx, dy) < 6 * 6 THEN w
           ELSE LET clamped == clampPos(w.drag.startLeft + dx, w.drag.startTop + dy,
                                        width, height, vw, vh)
                IN  [w EXCEPT !.drag.moved = TRUE,
                              !.hasLast = TRUE,
                              !.lastLeft = clamped.left, !.lastTop = clamped.top,
                              !.rawLeft = w.drag.startLeft + dx,
                              !.rawTop = w.drag.startTop + dy,
                              !.left = clamped.left, !.top = clamped.top,
                              !.explicit = TRUE]

onDragEnd(w, pointerId, width, height, vw, vh) ==
  IF w.drag = NoDrag \/ w.drag.pointerId # pointerId THEN w
  ELSE LET moved == w.drag.moved
           w1 == [w EXCEPT !.hasLast = moved /\ w.hasLast, !.drag = NoDrag,
                           !.lastDragMoved = moved]
       IN  IF moved /\ w1.hasLast
           THEN LET snapped == snapToCorner(w1.lastLeft, w1.lastTop, width, height, vw, vh)
                IN  [w1 EXCEPT !.left = snapped.left, !.top = snapped.top,
                               !.explicit = TRUE,
                               !.corner = snapped.corner,
                               !.offsetX = snapped.offsetX,
                               !.offsetY = snapped.offsetY]
           ELSE w1

toggleMinimize(w, hasState) ==
  IF ~hasState THEN w ELSE [w EXCEPT !.minimized = ~@]

onCardClick(w, interactive, hasState) ==
  IF ~w.minimized THEN w
  ELSE IF w.lastDragMoved THEN [w EXCEPT !.lastDragMoved = FALSE]
  ELSE IF interactive THEN w
  ELSE toggleMinimize(w, hasState)

\* gesture follows the pointers on the card: down[p], pointer p went down
\* outside the interactive controls and has not been released; far[p], it
\* has been 6px or more away from where it went down; released, how the
\* latest such pointer was released ("tap": never 6px away, "drag"), until
\* the click that follows
NoGesture == [down |-> [p \in Pointers |-> FALSE], far |-> [p \in Pointers |-> FALSE],
              released |-> "none"]

\* the saved position is a corner and an offset (savePosCorner is the only
\* writer of the slot); corner "" is an empty slot
applySavedPositionOnce(w, width, height) ==
  IF w.posApplied THEN w
  ELSE LET w1 == [w EXCEPT !.posApplied = TRUE]
       IN  IF w1.corner = "" THEN w1
           ELSE LET anchor == getCornerAnchors(width, height, w1.vw, w1.vh)[w1.corner]
                    clamped == clampPos(anchor.left + w1.offsetX, anchor.top + w1.offsetY,
                                        width, height, w1.vw, w1.vh)
                IN  [w1 EXCEPT !.left = clamped.left, !.top = clamped.top,
                               !.explicit = TRUE]

clampToViewport(w, width, height) ==
  IF ~w.explicit THEN w
  ELSE LET clamped == clampPos(w.left, w.top, width, height, w.vw, w.vh)
           snapped == snapToCorner(clamped.left, clamped.top, width, height, w.vw, w.vh)
       IN  [w EXCEPT !.left = clamped.left, !.top = clamped.top,
                     !.corner = snapped.corner,
                     !.offsetX = snapped.offsetX,
                     !.offsetY = snapped.offsetY]

\* ------------------------------------------------------------------- pacing
\* The numbers of applyPacing are binary64 values.  A value below 2^22 is a
\* sequence of Limbs digits in base 2^LimbBits, most significant first:
\* IntLimbs digits before the binary point and the rest after it.  Each
\* operation gives the exact result and round53 rounds it to 53 significant
\* bits, ties to even.
LimbBits == 11
Limbs == 8
IntLimbs == 2
Significand == 53

RECURSIVE Pow2(_)
Pow2(n) == IF n = 0 THEN 1 ELSE 2 * Pow2(n - 1)

Base == Pow2(LimbBits)
FixBits == Limbs * LimbBits

IntToFix(n) ==
  [l \in 1..Limbs |-> IF l = 1 THEN n \div Base ELSE IF l = 2 THEN n % Base ELSE 0]

\* bit i of x, bit 1 being the most significant
fixBit(x, i) ==
  (x[((i - 1) \div LimbBits) + 1] \div Pow2(LimbBits - 1 - ((i - 1) % LimbBits))) % 2

RECURSIVE fracDigits(_, _, _)
\* the next k digits of r / b after the point, for 0 <= r < b
fracDigits(r, b, k) ==
  IF k = 0 THEN <<>>
  ELSE <<(r * Base) \div b>> \o fracDigits((r * Base) % b, b, k - 1)

RECURSIVE fracRest(_, _, _)
\* what is left of r / b after k digits
fracRest(r, b, k) == IF k = 0 THEN r ELSE fracRest((r * Base) % b, b, k - 1)

RECURSIVE addAt(_, _, _)
\* x + amount * Base^(Limbs - l)
addAt(x, l, amount) ==
  IF l = 0 \/ amount = 0 THEN x
  ELSE LET v == x[l] + amount
       IN  addAt([x EXCEPT ![l] = v % Base], l - 1, v \div Base)

\* x followed by a non-zero tail when sticky, rounded to 53 significant bits
round53(x, sticky) ==
  IF \A i \in 1..FixBits : fixBit(x, i) = 0 THEN x
  ELSE LET first == CHOOSE i \in 1..FixBits :
                      fixBit(x, i) = 1 /\ \A j \in 1..(i - 1) : fixBit(x, j) = 0
           lastBit == first + Significand - 1
       IN  IF lastBit >= FixBits THEN x
           ELSE LET guard == fixBit(x, lastBit + 1) = 1
                    rest == sticky \/ \E j \in (lastBit + 2)..FixBits : fixBit(x, j) = 1
                    lastLimb == ((lastBit - 1) \div LimbBits) + 1
                    unit == Pow2(lastLimb * LimbBits - lastBit)
                    kept == [l \in 1..Limbs |->
                               IF l < lastLimb THEN x[l]
                               ELSE IF l = lastLimb THEN (x[l] \div unit) * unit
                               ELSE 0]
                IN  IF guard /\ (rest \/ fixBit(x, lastBit) = 1)
                    THEN addAt(kept, lastLimb, unit)
                    ELSE kept

\* a / b for integers 0 < b <= a < 2^22 * b
fixDiv(a, b) ==
  LET whole == IntToFix(a \div b)
      digits == fracDigits(a % b, b, Limbs - IntLimbs)
  IN  round53([l \in 1..Limbs |-> IF l <= IntLimbs THEN whole[l] ELSE digits[l - IntLimbs]],
              fracRest(a % b, b, Limbs - IntLimbs) # 0)

RECURSIVE mulFrom(_, _, _, _, _)
\* the digits of x * n from digit l up, the lower digits having carried
mulFrom(x, n, l, carry, acc) ==
  IF l = 0 THEN acc
  ELSE LET v == x[l] * n + carry
       IN  mulFrom(x, n, l - 1, v \div Base, <<v % Base>> \o acc)

\* x * n for an integer n >= 0, the product being below 2^22
fixMul(x, n) == round53(mulFrom(x, n, Limbs, 0, <<>>), FALSE)

RECURSIVE fixLess(_, _, _)
fixLess(x, y, l) ==
  IF l > Limbs THEN FALSE
  ELSE IF x[l] # y[l] THEN x[l] < y[l]
  ELSE fixLess(x, y, l + 1)

RECURSIVE subFrom(_, _, _, _, _)
\* the digits of x - y from digit l up, for x >= y
subFrom(x, y, l, borrow, acc) ==
  IF l = 0 THEN acc
  ELSE LET v == x[l] - y[l] - borrow
       IN  IF v < 0 THEN subFrom(x, y, l - 1, 1, <<v + Base>> \o acc)
           ELSE subFrom(x, y, l - 1, 0, <<v>> \o acc)

\* x - y as a sign and a magnitude
fixSub(x, y) ==
  IF fixLess(x, y, 1)
  THEN [negative |-> TRUE, magnitude |-> round53(subFrom(y, x, Limbs, 0, <<>>), FALSE)]
  ELSE [negative |-> FALSE, magnitude |-> round53(subFrom(x, y, Limbs, 0, <<>>), FALSE)]

\* sessionStats is null (NoStats) or the four counts of the page; the result
\* is the text of the pacing line and the number of the pacing meta line
\* (-1 for "--")
NoStats == [total |-> -1, done |-> 0, expectedTotal |-> 0, expectedDone |-> 0]

pacingLine(diff) ==
  IF ~diff.negative /\ fixLess(IntToFix(300), diff.magnitude, 1) THEN "Adiantado"
  ELSE IF diff.negative /\ fixLess(IntToFix(300), diff.magnitude, 1) THEN "Atrasado"
  ELSE "No ritmo"

applyPacing(stats, defaultSeconds, remainingSeconds) ==
  IF stats = NoStats \/ stats.total <= 0 THEN [line |-> "No ritmo", meta |-> -1]
  ELSE LET total == Max(0, stats.total)
           done == Max(0, Min(total, stats.done))
           remainingItems == Max(0, total - done)
           expectedTotal == Max(0, stats.expectedTotal)
           expectedDone == Max(0, stats.expectedDone)
           remaining == Max(0, remainingSeconds)
           diff == IF expectedTotal > 0
                   THEN fixSub(IntToFix(remaining),
                               IntToFix(Max(0, expectedTotal - expectedDone) * 60))
                   ELSE fixSub(IntToFix(remaining),
                               fixMul(fixDiv(defaultSeconds, total), remainingItems))
       IN  IF remainingItems = 0 THEN [line |-> "Concluido", meta |-> 0]
           ELSE [line |-> pacingLine(diff), meta |-> remainingItems]

\* ------------------------------------------------------------ lease methods
checkReadOnly(m, t) ==
  IF m.key = NoKey THEN m
  ELSE IF m.active = NoLease THEN [m EXCEPT !.readonly = FALSE]
  ELSE IF m.active.updatedAt # 0 /\ now - m.active.updatedAt > ACTIVE_TTL_MS
       THEN IF m.active.tabId = t /\ ~m.storageFails
            THEN [m EXCEPT !.active = NoLease, !.wrote = @ \cup {"active"},
                           !.readonly = FALSE]
            ELSE [m EXCEPT !.readonly = FALSE]
       ELSE [m EXCEPT !.readonly = (m.active.tabId # t)]

\* mutant: only a forced write refreshes the record
updateActiveRecord_forcedOnly(m, t, force) ==
  IF m.key = NoKey \/ m.state = NullState \/ ~m.state.isRunning \/ m.readonly THEN m
  ELSE IF ~force THEN m
  ELSE [m EXCEPT !.active = [tabId |-> t, updatedAt |-> now],
                 !.wrote = @ \cup {"active"},
                 !.lastActivePing = now]

updateActiveRecord(m, t, force) ==
  IF m.key = NoKey \/ m.state = NullState \/ ~m.state.isRunning \/ m.readonly THEN m
  ELSE IF ~force /\ now - m.lastActivePing < ACTIVE_PING_MS THEN m
  ELSE IF m.storageFails THEN [m EXCEPT !.lastActivePing = now]
  ELSE [m EXCEPT !.active = [tabId |-> t, updatedAt |-> now],
                 !.wrote = @ \cup {"active"},
                 !.lastActivePing = now]

\* mutant: the record is removed whoever owns it
releaseActiveRecord_anyOwner(m, t) ==
  IF m.key = NoKey THEN m
  ELSE IF m.active # NoLease
       THEN [m EXCEPT !.active = NoLease, !.wrote = @ \cup {"active"}]
       ELSE m

releaseActiveRecord(m, t) ==
  IF m.key = NoKey THEN m
  ELSE IF m.active # NoLease /\ m.active.tabId = t /\ ~m.storageFails
       THEN [m EXCEPT !.active = NoLease, !.wrote = @ \cup {"active"}]
       ELSE m

\* ------------------------------------------------------------ store methods
persist(m) ==
  IF m.key = NoKey \/ m.state = NullState THEN m
  ELSE IF m.readonly THEN m
  ELSE IF m.storageFails THEN m
  ELSE [m EXCEPT !.stored = m.state, !.wrote = @ \cup {"state"}]

render(m) ==
  IF m.state = NullState THEN m
  ELSE IF m.state.isRunning
       THEN IF m.state.overtime
            THEN [m EXCEPT !.state.remaining = -overtimeElapsed(m.state)]
            ELSE IF m.state.endAt # 0
                 THEN [m EXCEPT !.state.remaining = computeRemainingFromEndAt(m.state.endAt)]
                 ELSE m
       ELSE m

startTick(m) == [m EXCEPT !.tickHandle = TRUE]
stopTick(m) == [m EXCEPT !.tickHandle = FALSE]
showToast(m, msg) == [m EXCEPT !.toast = msg]
hideToast(m) == [m EXCEPT !.toast = "hidden"]

\* ------------------------------------------------------------------ alarm
\* alarm[t] holds the audio environment of the tab (env) and what the latest
\* finish() since the last start did with it.  env.api: window.AudioContext
\* is missing, its constructor throws, or it works; env.ctx: the state of
\* this.audioCtx ("none": there is no context yet); env.fresh: the state of
\* a context right after its construction; env.resume: what ctx.resume()
\* does on a suspended context; env.vibrate: navigator.vibrate.
QuietEnv == [api |-> "ok", ctx |-> "none", fresh |-> "suspended",
             resume |-> "resolves", vibrate |-> "ok"]

NoAlarm == [env |-> QuietEnv, attempted |-> FALSE, beeps |-> 0, vibrated |-> FALSE]

Vibrations == {"unsupported", "throws", "ok"}
Resumes == {"resolves", "staysSuspended", "rejects", "noPromise", "noPromiseRuns",
            "throws"}

AudioEnvs ==
  {[QuietEnv EXCEPT !.api = a, !.vibrate = v] :
     a \in {"missing", "throws"}, v \in Vibrations}
  \cup {[QuietEnv EXCEPT !.fresh = f, !.vibrate = v] :
          f \in {"suspended", "running"}, v \in Vibrations}
  \cup {[QuietEnv EXCEPT !.ctx = c, !.vibrate = v] :
          c \in {"running", "closed"}, v \in Vibrations}
  \cup {[QuietEnv EXCEPT !.ctx = "suspended", !.resume = r, !.vibrate = v] :
          r \in Resumes, v \in Vibrations}

\* result of beepSequence when an exception leaves it
Thrown == -1

\* the number of tones beepSequence plays (at once, or when the promise of
\* resume() is fulfilled), or Thrown
beepSequence(env) ==
  LET ctx == IF env.ctx = "none"
             THEN (IF env.api = "ok" THEN env.fresh ELSE "none")
             ELSE env.ctx
  IN  IF ctx = "none" THEN 0
      ELSE IF ctx = "suspended"
           THEN CASE env.resume = "throws" -> Thrown
                  [] env.resume \in {"resolves", "noPromiseRuns"} -> 3
                  [] OTHER -> 0
           ELSE IF ctx = "running" THEN 3 ELSE 0

\* whether the device vibrates
vibrate(env) == env.vibrate = "ok"

\* --------------------------------------------------------- state machine
\* mutant: finish leaves the running flag set
finish_keepsRunning(m, t) ==
  IF m.state = NullState THEN m
  ELSE LET m1 == [stopTick(m) EXCEPT !.state.endAt = 0,
                                     !.state.remaining = 0,
                                     !.state.overtime = FALSE,
                                     !.state.overtimeStartAt = 0]
           m2 == releaseActiveRecord(render(persist(m1)), t)
           alarmEnabled == m2.state.alarmEnabled
           beeps == IF alarmEnabled THEN beepSequence(m2.alarm.env) ELSE 0
           m3 == [m2 EXCEPT !.alarm.attempted = alarmEnabled,
                            !.alarm.beeps = Max(0, beeps),
                            !.alarm.vibrated = alarmEnabled /\ beeps # Thrown
                                               /\ vibrate(m2.alarm.env)]
       IN  IF beeps = Thrown THEN m3
           ELSE [showToast(m3, "finished") EXCEPT !.finishes = Min(MaxFinishes, @ + 1)]

finish(m, t) ==
  IF m.state = NullState THEN m
  ELSE LET m1 == [stopTick(m) EXCEPT !.state.isRunning = FALSE,
                                     !.state.endAt = 0,
                                     !.state.remaining = 0,
                                     !.state.overtime = FALSE,
                                     !.state.overtimeStartAt = 0]
           m2 == releaseActiveRecord(render(persist(m1)), t)
           alarmEnabled == m2.state.alarmEnabled
           beeps == IF alarmEnabled THEN beepSequence(m2.alarm.env) ELSE 0
           m3 == [m2 EXCEPT !.alarm.attempted = alarmEnabled,
                            !.alarm.beeps = Max(0, beeps),
                            !.alarm.vibrated = alarmEnabled /\ beeps # Thrown
                                               /\ vibrate(m2.alarm.env)]
       IN  IF beeps = Thrown THEN m3
           ELSE [showToast(m3, "finished") EXCEPT !.finishes = Min(MaxFinishes, @ + 1)]

\* mutant: the poll is not started
start_noTick(m, t) ==
  IF m.state = NullState THEN m
  ELSE LET m1 == checkReadOnly(m, t) IN
       IF m1.readonly THEN m1
       ELSE LET rem == IF m1.state.remaining <= 0 THEN m1.state.defaultSeconds
                       ELSE m1.state.remaining
                m2 == [hideToast(m1) EXCEPT !.state.remaining = rem,
                                            !.state.overtime = FALSE,
                                            !.state.overtimeStartAt = 0,
                                            !.state.endAt = now + Max(0, rem) * 1000,
                                            !.state.isRunning = TRUE,
                                            !.finishes = 0,
                                            !.alarm = [NoAlarm EXCEPT !.env = m1.alarm.env]]
            IN  updateActiveRecord(render(persist(m2)), t, TRUE)

start(m, t) ==
  IF m.state = NullState THEN m
  ELSE LET m1 == checkReadOnly(m, t) IN
       IF m1.readonly THEN m1
       ELSE LET rem == IF m1.state.remaining <= 0 THEN m1.state.defaultSeconds
                       ELSE m1.state.remaining
                m2 == [hideToast(m1) EXCEPT !.state.remaining = rem,
                                            !.state.overtime = FALSE,
                                            !.state.overtimeStartAt = 0,
                                            !.state.endAt = now + Max(0, rem) * 1000,
                                            !.state.isRunning = TRUE,
                                            !.finishes = 0,
                                            !.alarm = [NoAlarm EXCEPT !.env = m1.alarm.env]]
            IN  updateActiveRecord(startTick(render(persist(m2))), t, TRUE)

startOvertime(m, t) ==
  IF m.state = NullState THEN m
  ELSE LET m1 == checkReadOnly(m, t) IN
       IF m1.readonly THEN showToast(m1, "readonly")
       ELSE LET m2 == [hideToast(m1) EXCEPT !.state.overtime = TRUE,
                                            !.state.overtimeStartAt = now,
                                            !.state.remaining = 0,
                                            !.state.endAt = 0,
                                            !.state.isRunning = TRUE]
            IN  updateActiveRecord(startTick(render(persist(m2))), t, TRUE)

\* mutant: pause takes no snapshot of the clock
pause_noSnapshot(m, t) ==
  IF m.state = NullState THEN m
  ELSE IF ~m.state.isRunning THEN m
  ELSE LET m1 == IF m.state.overtime
                 THEN [m EXCEPT !.state.overtime = FALSE, !.state.overtimeStartAt = 0]
                 ELSE m
           m2 == [m1 EXCEPT !.state.isRunning = FALSE, !.state.endAt = 0]
       IN  releaseActiveRecord(stopTick(render(persist(m2))), t)

\* mutant: pause leaves the lease record in place
pause_keepsLease(m, t) ==
  IF m.state = NullState THEN m
  ELSE IF ~m.state.isRunning THEN m
  ELSE LET m1 == IF m.state.overtime
                 THEN [m EXCEPT !.state.overtime = FALSE, !.state.overtimeStartAt = 0]
                 ELSE IF m.state.endAt # 0
                      THEN [m EXCEPT !.state.remaining = computeRemainingFromEndAt(m.state.endAt)]
                      ELSE m
           m2 == [m1 EXCEPT !.state.isRunning = FALSE, !.state.endAt = 0]
       IN  stopTick(render(persist(m2)))

pause(m, t) ==
  IF m.state = NullState THEN m
  ELSE IF ~m.state.isRunning THEN m
  ELSE LET m1 == IF m.state.overtime
                 THEN [m EXCEPT !.state.overtime = FALSE, !.state.overtimeStartAt = 0]
                 ELSE IF m.state.endAt # 0
                      THEN [m EXCEPT !.state.remaining = computeRemainingFromEndAt(m.state.endAt)]
                      ELSE m
           m2 == [m1 EXCEPT !.state.isRunning = FALSE, !.state.endAt = 0]
       IN  releaseActiveRecord(stopTick(render(persist(m2))), t)

reset(m, t) ==
  IF m.state = NullState THEN m
  ELSE LET m1 == checkReadOnly(m, t) IN
       IF m1.readonly THEN showToast(m1, "readonly")
       ELSE LET m2 == [hideToast(m1) EXCEPT !.state.isRunning = FALSE,
                                            !.state.endAt = 0,
                                            !.state.remaining = m1.state.defaultSeconds,
                                            !.state.overtime = FALSE,
                                            !.state.overtimeStartAt = 0]
            IN  releaseActiveRecord(stopTick(render(persist(m2))), t)

startPause(m, t) ==
  IF m.state = NullState THEN m
  ELSE LET m1 == checkReadOnly(m, t) IN
       IF m1.readonly THEN showToast(m1, "readonly")
       ELSE IF m1.state.isRunning THEN pause(m1, t) ELSE start(m1, t)

\* mutant: the adjustment does not re-read the lease
adjustSeconds_noLeaseCheck(m, t, deltaSeconds) ==
  IF m.state = NullState THEN m
  ELSE IF m.readonly THEN showToast(m, "readonly")
  ELSE IF m.state.isRunning THEN m
  ELSE LET next == Max(0, Min(MAX_SECONDS, m.state.remaining + deltaSeconds))
           m2 == [m EXCEPT !.state.remaining = next,
                           !.state.overtime = FALSE,
                           !.state.overtimeStartAt = 0]
       IN  render(persist(m2))

\* mutant: the sum has no lower limit
adjustSeconds_noLowerLimit(m, t, deltaSeconds) ==
  IF m.state = NullState THEN m
  ELSE LET m1 == checkReadOnly(m, t) IN
       IF m1.readonly THEN showToast(m1, "readonly")
       ELSE IF m1.state.isRunning THEN m1
       ELSE LET next == Min(MAX_SECONDS, m1.state.remaining + deltaSeconds)
                m2 == [m1 EXCEPT !.state.remaining = next,
                                 !.state.overtime = FALSE,
                                 !.state.overtimeStartAt = 0]
            IN  render(persist(m2))

adjustSeconds(m, t, deltaSeconds) ==
  IF m.state = NullState THEN m
  ELSE LET m1 == checkReadOnly(m, t) IN
       IF m1.readonly THEN showToast(m1, "readonly")
       ELSE IF m1.state.isRunning THEN m1
       ELSE LET next == Max(0, Min(MAX_SECONDS, m1.state.remaining + deltaSeconds))
                m2 == [m1 EXCEPT !.state.remaining = next,
                                 !.state.overtime = FALSE,
                                 !.state.overtimeStartAt = 0]
            IN  render(persist(m2))

\* mutant: the sum has no upper limit
addExtraSeconds_noUpperLimit(m, t, extra, autostart) ==
  IF m.state = NullState THEN m
  ELSE LET m1 == checkReadOnly(m, t) IN
       IF m1.readonly THEN showToast(m1, "readonly")
       ELSE IF m1.state.isRunning THEN m1
       ELSE LET next == Max(0, m1.state.remaining + extra)
                m2 == [m1 EXCEPT !.state.remaining = next,
                                 !.state.overtime = FALSE,
                                 !.state.overtimeStartAt = 0]
                m3 == render(persist(m2))
            IN  hideToast(IF autostart THEN start(m3, t) ELSE m3)

addExtraSeconds(m, t, extra, autostart) ==
  IF m.state = NullState THEN m
  ELSE LET m1 == checkReadOnly(m, t) IN
       IF m1.readonly THEN showToast(m1, "readonly")
       ELSE IF m1.state.isRunning THEN m1
       ELSE LET next == Max(0, Min(MAX_SECONDS, m1.state.remaining + extra))
                m2 == [m1 EXCEPT !.state.remaining = next,
                                 !.state.overtime = FALSE,
                                 !.state.overtimeStartAt = 0]
                m3 == render(persist(m2))
            IN  hideToast(IF autostart THEN start(m3, t) ELSE m3)

toggleAlarm(m, t) ==
  IF m.state = NullState THEN m
  ELSE LET m1 == checkReadOnly(m, t) IN
       IF m1.readonly THEN showToast(m1, "readonly")
       ELSE render(persist([m1 EXCEPT !.state.alarmEnabled = ~@]))

\* mutant: every poll takes one second off remaining instead of reading the
\* clock
tick_decrements(m, t) ==
  IF m.state = NullState \/ ~m.state.isRunning THEN m
  ELSE LET m1 == IF m.lastReadonlyTickCheck = 0
                    \/ now - m.lastReadonlyTickCheck >= READONLY_CHECK_TICK_MS
                 THEN [checkReadOnly(m, t) EXCEPT !.lastReadonlyTickCheck = now]
                 ELSE m
       IN
       IF m1.readonly THEN m1
       ELSE IF m1.state.overtime
       THEN LET rem == -overtimeElapsed(m1.state)
                m2 == IF rem # m1.state.remaining
                      THEN render(persist([m1 EXCEPT !.state.remaining = rem]))
                      ELSE m1
            IN  updateActiveRecord(m2, t, FALSE)
       ELSE IF m1.state.endAt = 0 THEN m1
       ELSE LET rem == Max(0, m1.state.remaining - 1)
                m2 == IF rem # m1.state.remaining
                      THEN persist([m1 EXCEPT !.state.remaining = rem])
                      ELSE m1
            IN  IF rem <= 0 THEN finish(m2, t) ELSE updateActiveRecord(m2, t, FALSE)

tick(m, t) ==
  IF m.state = NullState \/ ~m.state.isRunning THEN m
  ELSE LET m1 == IF m.lastReadonlyTickCheck = 0
                    \/ now - m.lastReadonlyTickCheck >= READONLY_CHECK_TICK_MS
                 THEN [checkReadOnly(m, t) EXCEPT !.lastReadonlyTickCheck = now]
                 ELSE m
       IN
       IF m1.readonly THEN m1
       ELSE IF m1.state.overtime
       THEN LET rem == -overtimeElapsed(m1.state)
                m2 == IF rem # m1.state.remaining
                      THEN render(persist([m1 EXCEPT !.state.remaining = rem]))
                      ELSE m1
            IN  updateActiveRecord(m2, t, FALSE)
       ELSE IF m1.state.endAt = 0 THEN m1
       ELSE LET rem == computeRemainingFromEndAt(m1.state.endAt)
                m2 == IF rem # m1.state.remaining
                      THEN render(persist([m1 EXCEPT !.state.remaining = rem]))
                      ELSE m1
            IN  IF rem <= 0 THEN finish(m2, t) ELSE updateActiveRecord(m2, t, FALSE)

\* mutant: the default is updated also while running
configure_updatesWhileRunning(m, t, enabled, targetMinutes, autostart) ==
  IF ~enabled THEN stopTick(hideToast(m))
  ELSE
  LET defaultSeconds == clampInt(targetMinutes * 60, 60, MAX_SECONDS)
      loaded == loadState(m.stored)
      hadState == loaded # NullState
      fresh == IF hadState THEN loaded ELSE buildInitialState(defaultSeconds)
      m1 == IF m.key # KEY
            THEN [m EXCEPT !.key = KEY, !.state = fresh, !.adopted = hadState]
            ELSE IF m.state = NullState
                 THEN [m EXCEPT !.state = fresh, !.adopted = hadState]
                 ELSE IF ~hadState /\ m.state.defaultSeconds <= 0
                      THEN [m EXCEPT !.state = buildInitialState(defaultSeconds)]
                      ELSE m
      m2 == IF m1.state.defaultSeconds # defaultSeconds
            THEN [m1 EXCEPT !.state.defaultSeconds = defaultSeconds,
                            !.state.remaining =
                               IF m1.state.remaining = 0
                                  \/ m1.state.remaining = m1.state.defaultSeconds
                               THEN defaultSeconds ELSE @]
            ELSE m1
  IN
  IF autostart /\ ~hadState /\ ~m2.state.isRunning THEN start(m2, t)
  ELSE IF m2.state.isRunning /\ ~m2.state.overtime /\ m2.state.endAt # 0
          /\ computeRemainingFromEndAt(m2.state.endAt) <= 0
       THEN finish([m2 EXCEPT !.state.remaining = 0], t)
  ELSE LET m3 == IF m2.state.isRunning
                 THEN IF m2.state.overtime THEN startTick(m2)
                      ELSE IF m2.state.endAt # 0
                           THEN startTick([m2 EXCEPT !.state.remaining =
                                              computeRemainingFromEndAt(m2.state.endAt)])
                           ELSE m2
                 ELSE stopTick(m2)
       IN  render(persist(checkReadOnly(m3, t)))

\* mutant: a changed default always replaces remaining
configure_alwaysSnaps(m, t, enabled, targetMinutes, autostart) ==
  IF ~enabled THEN stopTick(hideToast(m))
  ELSE
  LET defaultSeconds == clampInt(targetMinutes * 60, 60, MAX_SECONDS)
      loaded == loadState(m.stored)
      hadState == loaded # NullState
      fresh == IF hadState THEN loaded ELSE buildInitialState(defaultSeconds)
      m1 == IF m.key # KEY
            THEN [m EXCEPT !.key = KEY, !.state = fresh, !.adopted = hadState]
            ELSE IF m.state = NullState
                 THEN [m EXCEPT !.state = fresh, !.adopted = hadState]
                 ELSE IF ~hadState /\ m.state.defaultSeconds <= 0
                      THEN [m EXCEPT !.state = buildInitialState(defaultSeconds)]
                      ELSE m
      m2 == IF ~m1.state.isRunning /\ ~m1.state.overtime
               /\ m1.state.defaultSeconds # defaultSeconds
            THEN [m1 EXCEPT !.state.defaultSeconds = defaultSeconds,
                            !.state.remaining = defaultSeconds]
            ELSE m1
  IN
  IF autostart /\ ~hadState /\ ~m2.state.isRunning THEN start(m2, t)
  ELSE IF m2.state.isRunning /\ ~m2.state.overtime /\ m2.state.endAt # 0
          /\ computeRemainingFromEndAt(m2.state.endAt) <= 0
       THEN finish([m2 EXCEPT !.state.remaining = 0], t)
  ELSE LET m3 == IF m2.state.isRunning
                 THEN IF m2.state.overtime THEN startTick(m2)
                      ELSE IF m2.state.endAt # 0
                           THEN startTick([m2 EXCEPT !.state.remaining =
                                              computeRemainingFromEndAt(m2.state.endAt)])
                           ELSE m2
                 ELSE stopTick(m2)
       IN  render(persist(checkReadOnly(m3, t)))

\* mutant: autostart does not look at the persisted state
configure_autostartsAgain(m, t, enabled, targetMinutes, autostart) ==
  IF ~enabled THEN stopTick(hideToast(m))
  ELSE
  LET defaultSeconds == clampInt(targetMinutes * 60, 60, MAX_SECONDS)
      loaded == loadState(m.stored)
      hadState == loaded # NullState
      fresh == IF hadState THEN loaded ELSE buildInitialState(defaultSeconds)
      m1 == IF m.key # KEY
            THEN [m EXCEPT !.key = KEY, !.state = fresh, !.adopted = hadState]
            ELSE IF m.state = NullState
                 THEN [m EXCEPT !.state = fresh, !.adopted = hadState]
                 ELSE IF ~hadState /\ m.state.defaultSeconds <= 0
                      THEN [m EXCEPT !.state = buildInitialState(defaultSeconds)]
                      ELSE m
      m2 == IF ~m1.state.isRunning /\ ~m1.state.overtime
               /\ m1.state.defaultSeconds # defaultSeconds
            THEN [m1 EXCEPT !.state.defaultSeconds = defaultSeconds,
                            !.state.remaining =
                               IF m1.state.remaining = 0
                                  \/ m1.state.remaining = m1.state.defaultSeconds
                               THEN defaultSeconds ELSE @]
            ELSE m1
  IN
  IF autostart /\ ~m2.state.isRunning THEN start(m2, t)
  ELSE IF m2.state.isRunning /\ ~m2.state.overtime /\ m2.state.endAt # 0
          /\ computeRemainingFromEndAt(m2.state.endAt) <= 0
       THEN finish([m2 EXCEPT !.state.remaining = 0], t)
  ELSE LET m3 == IF m2.state.isRunning
                 THEN IF m2.state.overtime THEN startTick(m2)
                      ELSE IF m2.state.endAt # 0
                           THEN startTick([m2 EXCEPT !.state.remaining =
                                              computeRemainingFromEndAt(m2.state.endAt)])
                           ELSE m2
                 ELSE stopTick(m2)
       IN  render(persist(checkReadOnly(m3, t)))

configureFromPage(m, t, enabled, targetMinutes, autostart) ==
  IF ~enabled THEN stopTick(hideToast(m))
  ELSE
  LET defaultSeconds == clampInt(targetMinutes * 60, 60, MAX_SECONDS)
      loaded == loadState(m.stored)
      hadState == loaded # NullState
      fresh == IF hadState THEN loaded ELSE buildInitialState(defaultSeconds)
      m1 == IF m.key # KEY
            THEN [m EXCEPT !.key = KEY, !.state = fresh, !.adopted = hadState]
            ELSE IF m.state = NullState
                 THEN [m EXCEPT !.state = fresh, !.adopted = hadState]
                 ELSE IF ~hadState /\ m.state.defaultSeconds <= 0
                      THEN [m EXCEPT !.state = buildInitialState(defaultSeconds)]
                      ELSE m
      m2 == IF ~m1.state.isRunning /\ ~m1.state.overtime
               /\ m1.state.defaultSeconds # defaultSeconds
            THEN [m1 EXCEPT !.state.defaultSeconds = defaultSeconds,
                            !.state.remaining =
                               IF m1.state.remaining = 0
                                  \/ m1.state.remaining = m1.state.defaultSeconds
                               THEN defaultSeconds ELSE @]
            ELSE m1
  IN
  IF autostart /\ ~hadState /\ ~m2.state.isRunning THEN start(m2, t)
  ELSE IF m2.state.isRunning /\ ~m2.state.overtime /\ m2.state.endAt # 0
          /\ computeRemainingFromEndAt(m2.state.endAt) <= 0
       THEN finish([m2 EXCEPT !.state.remaining = 0], t)
  ELSE LET m3 == IF m2.state.isRunning
                 THEN IF m2.state.overtime THEN startTick(m2)
                      ELSE IF m2.state.endAt # 0
                           THEN startTick([m2 EXCEPT !.state.remaining =
                                              computeRemainingFromEndAt(m2.state.endAt)])
                           ELSE m2
                 ELSE stopTick(m2)
       IN  render(persist(checkReadOnly(m3, t)))

onVisibility(m, t) ==
  LET m1 == checkReadOnly(m, t) IN
  IF m1.state # NullState /\ m1.state.isRunning /\ ~m1.state.overtime
     /\ m1.state.endAt # 0
  THEN LET rem == computeRemainingFromEndAt(m1.state.endAt)
           m2 == [m1 EXCEPT !.state.remaining = rem]
       IN  IF rem <= 0 THEN finish(m2, t) ELSE render(persist(m2))
  ELSE render(m1)

\* mutant: the notification does not re-evaluate the lease
onStorage_noRecheck(m, t) ==
  IF m.key = NoKey THEN m
  ELSE LET loaded == loadState(m.stored)
           m1 == IF m.active # NoLease /\ m.active.tabId # t /\ loaded # NullState
                 THEN [m EXCEPT !.state = loaded, !.adopted = TRUE]
                 ELSE m
       IN  render(m1)

onStorage(m, t) ==
  IF m.key = NoKey THEN m
  ELSE LET loaded == loadState(m.stored)
           m1 == IF m.active # NoLease /\ m.active.tabId # t /\ loaded # NullState
                 THEN [m EXCEPT !.state = loaded, !.adopted = TRUE]
                 ELSE m
       IN  render(checkReadOnly(m1, t))

onResetHoldStart(m, t, leftButton) ==
  IF m.state = NullState THEN m
  ELSE LET m1 == checkReadOnly(m, t) IN
       IF m1.readonly THEN m1
       ELSE IF ~m1.state.isRunning THEN m1
       ELSE IF ~leftButton THEN m1
       ELSE [m1 EXCEPT !.resetHoldFired = FALSE,
                       !.timers = @ \cup {now + RESET_HOLD_MS},
                       !.resetHoldTimer = now + RESET_HOLD_MS]

\* the setTimeout callback of onResetHoldStart
resetHoldTimeout(m, t, due) ==
  reset([m EXCEPT !.timers = @ \ {due}, !.resetHoldFired = TRUE], t)

onResetHoldEnd(m) ==
  IF m.state = NullState THEN m
  ELSE IF ~m.state.isRunning THEN m
  ELSE LET m1 == IF m.resetHoldTimer # 0
                 THEN [m EXCEPT !.timers = @ \ {m.resetHoldTimer}, !.resetHoldTimer = 0]
                 ELSE m
           m2 == IF ~m1.resetHoldFired THEN showToast(m1, "hold") ELSE m1
       IN  [m2 EXCEPT !.resetHoldFired = FALSE]

onResetClick(m, t) ==
  IF m.state = NullState THEN m
  ELSE IF m.state.isRunning THEN m
  ELSE reset(m, t)

\* ------------------------------------------------------------------ actions
MutatingOps == {"startPause", "adjust", "extend", "overtime", "resetClick", "resetHold"}

\* Write the handler's result back.  Every slot the handler wrote raises a
\* storage event in the other tabs.  unseen[u] records that the state slot
\* holds a write of a mutating action of another tab that u has not loaded.
\* last names the handler that made the latest change.
CommitState(t, op, m, consumed) ==
  LET wroteState == "state" \in m.wrote
      mut == op \in MutatingOps /\ wroteState
  IN
  /\ currentKey' = [currentKey EXCEPT ![t] = m.key]
  /\ state' = [state EXCEPT ![t] = m.state]
  /\ tickHandle' = [tickHandle EXCEPT ![t] = m.tickHandle]
  /\ readonly' = [readonly EXCEPT ![t] = m.readonly]
  /\ lastActivePing' = [lastActivePing EXCEPT ![t] = m.lastActivePing]
  /\ lastReadonlyTickCheck' = [lastReadonlyTickCheck EXCEPT ![t] = m.lastReadonlyTickCheck]
  /\ resetHoldTimer' = [resetHoldTimer EXCEPT ![t] = m.resetHoldTimer]
  /\ resetHoldFired' = [resetHoldFired EXCEPT ![t] = m.resetHoldFired]
  /\ timers' = [timers EXCEPT ![t] = m.timers]
  /\ toast' = [toast EXCEPT ![t] = m.toast]
  /\ finishes' = [finishes EXCEPT ![t] = m.finishes]
  /\ stored' = m.stored
  /\ active' = m.active
  /\ storageEv' = [u \in Tabs |-> IF u = t THEN storageEv[u] \ consumed
                                    ELSE storageEv[u] \cup m.wrote]
  /\ unseen' = [u \in Tabs |->
                  IF u = t THEN (IF m.adopted \/ mut THEN FALSE ELSE unseen[u])
                  ELSE (IF mut THEN TRUE ELSE unseen[u])]
  /\ last' = IF m = View(t) /\ consumed = {} THEN last ELSE [op |-> op, tab |-> t]
  /\ pacing' = pacing
  /\ alarm' = [alarm EXCEPT ![t] = m.alarm]

\* a handler that leaves the container and the card alone
Commit(t, op, m, consumed) ==
  /\ CommitState(t, op, m, consumed)
  /\ widget' = widget
  /\ gesture' = gesture

AdvanceTime(steps, maxAdv) ==
  /\ adv < maxAdv
  /\ \E d \in steps : now' = now + d
  /\ adv' = adv + 1
  /\ last' = [op |-> "advance", tab |-> ""]
  /\ UNCHANGED <<events, currentKey, state, tickHandle, readonly, lastActivePing,
                 lastReadonlyTickCheck, resetHoldTimer, resetHoldFired, timers,
                 toast, finishes, stored, active, storageEv, unseen, pressedAt,
                 tickDue, widget, pacing, alarm, gesture>>
  /\ heldLong' = [t \in Tabs |-> FALSE]

ConfigureWith(t, enabled, target, autostart) ==
  /\ Commit(t,
            IF enabled /\ state[t] # NullState
               /\ clampInt(target * 60, 60, MAX_SECONDS) # state[t].defaultSeconds
            THEN "reconfigure" ELSE "configure",
            configureFromPage(View(t), t, enabled, target, autostart), {})
  /\ UNCHANGED <<now, adv, pressedAt, heldLong>>

OnConfigure(t, targets) ==
  \E enabled \in BOOLEAN, target \in targets, autostart \in BOOLEAN :
     ConfigureWith(t, enabled, target, autostart)

\* configuration by pages that carry the timer
OnConfigureEnabled(t, targets) ==
  \E target \in targets, autostart \in BOOLEAN :
     ConfigureWith(t, TRUE, target, autostart)

\* page reload or navigation: boot() constructs the object and configures it
ReloadWith(t, enabled, target, autostart) ==
  /\ Commit(t, "reload",
            configureFromPage(newFloatingTimer(View(t)), t, enabled, target, autostart), {})
  /\ UNCHANGED <<now, adv, pressedAt, heldLong>>

OnReload(t, targets) ==
  \E enabled \in BOOLEAN, target \in targets, autostart \in BOOLEAN :
     ReloadWith(t, enabled, target, autostart)

\* another writer (an older version of the page, a browser extension, the
\* user in the developer tools) leaves content of its own in the state slot
RawSlots ==
  {Malformed} \cup
  {[remaining |-> r, isRunning |-> run, endAt |-> 0, defaultSeconds |-> d,
    alarmEnabled |-> TRUE, overtime |-> FALSE, overtimeStartAt |-> 0] :
     r \in {NotFinite, -20000, 99999}, d \in {NotFinite, 20000}, run \in BOOLEAN}

OnForeignWrite ==
  /\ \E raw \in RawSlots : stored' = raw
  /\ last' = [op |-> "foreignWrite", tab |-> ""]
  /\ UNCHANGED <<now, adv, events, currentKey, state, tickHandle, readonly, lastActivePing,
                 lastReadonlyTickCheck, resetHoldTimer, resetHoldFired, timers,
                 toast, finishes, active, storageEv, unseen, pressedAt, heldLong,
                 tickDue, widget, pacing, alarm, gesture>>

OnInterval(t) ==
  /\ tickHandle[t]
  /\ Commit(t, "tick", tick(View(t), t), {})
  /\ UNCHANGED <<now, adv, pressedAt, heldLong>>

OnVisibilityChange(t) ==
  /\ Commit(t, "visibility", onVisibility(View(t), t), {})
  /\ UNCHANGED <<now, adv, pressedAt, heldLong>>

OnStorageEvent(t) ==
  /\ \E k \in storageEv[t] : Commit(t, "storage", onStorage(View(t), t), {k})
  /\ UNCHANGED <<now, adv, pressedAt, heldLong>>

OnStartPauseClick(t) ==
  /\ Commit(t, "startPause", startPause(View(t), t), {})
  /\ UNCHANGED <<now, adv, pressedAt, heldLong>>

OnAdjustClick(t) ==
  /\ \E delta \in {-60, 60} :
        /\ state[t].remaining + delta >= state[t].defaultSeconds - 60 * MaxDrift
        /\ state[t].remaining + delta <= state[t].defaultSeconds + 60 * MaxDrift
        /\ Commit(t, "adjust", adjustSeconds(View(t), t, delta), {})
  /\ UNCHANGED <<now, adv, pressedAt, heldLong>>

OnAlarmToggle(t) ==
  /\ Commit(t, "alarm", toggleAlarm(View(t), t), {})
  /\ UNCHANGED <<now, adv, pressedAt, heldLong>>

OnToastAdd5(t) ==
  /\ toast[t] # "hidden"
  /\ Commit(t, "extend", addExtraSeconds(View(t), t, 300, TRUE), {})
  /\ UNCHANGED <<now, adv, pressedAt, heldLong>>

OnToastContinue(t) ==
  /\ toast[t] # "hidden"
  /\ Commit(t, "overtime", startOvertime(View(t), t), {})
  /\ UNCHANGED <<now, adv, pressedAt, heldLong>>

\* pressedAt[t][p] is the time pointer p went down on the reset control of
\* tab t (0: not down); heldLong[t] tells that a press of at least
\* RESET_HOLD_MS was released at the current instant.
OnResetPointerDown(t, p) ==
  /\ pressedAt[t][p] = 0
  /\ \E leftButton \in BOOLEAN :
        Commit(t, "resetDown", onResetHoldStart(View(t), t, leftButton), {})
  /\ pressedAt' = [pressedAt EXCEPT ![t][p] = now]
  /\ UNCHANGED <<now, adv, heldLong>>

OnResetPointerUp(t, p) ==
  /\ pressedAt[t][p] # 0
  /\ Commit(t, "resetUp", onResetHoldEnd(View(t)), {})
  /\ pressedAt' = [pressedAt EXCEPT ![t][p] = 0]
  /\ heldLong' = [heldLong EXCEPT ![t] = @ \/ now - pressedAt[t][p] >= RESET_HOLD_MS]
  /\ UNCHANGED <<now, adv>>

OnResetTimeout(t) ==
  /\ \E due \in timers[t] :
        /\ now >= due
        /\ Commit(t, "resetHold", resetHoldTimeout(View(t), t, due), {})
  /\ UNCHANGED <<now, adv, pressedAt, heldLong>>

OnResetClick(t) ==
  /\ Commit(t, "resetClick", onResetClick(View(t), t), {})
  /\ UNCHANGED <<now, adv, pressedAt, heldLong>>

\* the browser, the device or the user changes the audio environment of
\* the tab
OnAudioChange(t) ==
  /\ \E env \in AudioEnvs :
        /\ env # alarm[t].env
        /\ alarm' = [alarm EXCEPT ![t].env = env]
  /\ last' = [op |-> "audio", tab |-> t]
  /\ UNCHANGED <<now, adv, events, currentKey, state, tickHandle, readonly, lastActivePing,
                 lastReadonlyTickCheck, resetHoldTimer, resetHoldFired, timers,
                 toast, finishes, stored, active, storageEv, unseen, pressedAt, heldLong,
                 tickDue, widget, pacing, gesture>>

\* the +/- buttons, however far remaining is from the default
AdjustWith(t, delta) ==
  /\ Commit(t, "adjust", adjustSeconds(View(t), t, delta), {})
  /\ UNCHANGED <<now, adv, pressedAt, heldLong>>

OnAdjustPress(t) ==
  \E delta \in {-60, 60} : AdjustWith(t, delta)

\* a script of the host page calls a method of the object that boot() leaves
\* in window.__floatingTrainTimer
OnPauseCall(t) ==
  /\ Commit(t, "pause", pause(View(t), t), {})
  /\ UNCHANGED <<now, adv, pressedAt, heldLong>>

ExtendWith(t, extra, autostart) ==
  /\ Commit(t, "extend", addExtraSeconds(View(t), t, extra, autostart), {})
  /\ UNCHANGED <<now, adv, pressedAt, heldLong>>

OnExtendCall(t) ==
  \E extra \in Extras, autostart \in BOOLEAN : ExtendWith(t, extra, autostart)

Init ==
  /\ now = T0
  /\ adv = 0
  /\ events = 0
  /\ currentKey = [t \in Tabs |-> NoKey]
  /\ state = [t \in Tabs |-> NullState]
  /\ tickHandle = [t \in Tabs |-> FALSE]
  /\ readonly = [t \in Tabs |-> FALSE]
  /\ lastActivePing = [t \in Tabs |-> 0]
  /\ lastReadonlyTickCheck = [t \in Tabs |-> 0]
  /\ resetHoldTimer = [t \in Tabs |-> 0]
  /\ resetHoldFired = [t \in Tabs |-> FALSE]
  /\ timers = [t \in Tabs |-> {}]
  /\ toast = [t \in Tabs |-> "hidden"]
  /\ finishes = [t \in Tabs |-> 0]
  /\ stored = NullState
  /\ active = NoLease
  /\ storageEv = [t \in Tabs |-> {}]
  /\ unseen = [t \in Tabs |-> FALSE]
  /\ pressedAt = [t \in Tabs |-> [p \in Pointers |-> 0]]
  /\ heldLong = [t \in Tabs |-> FALSE]
  /\ last = [op |-> "init", tab |-> ""]
  /\ tickDue = [t \in Tabs |-> 0]
  /\ widget = [left |-> 712, top |-> 676, drag |-> NoDrag, hasLast |-> FALSE,
               lastLeft |-> 0, lastTop |-> 0, rawLeft |-> 0, rawTop |-> 0,
               corner |-> "", offsetX |-> 0, offsetY |-> 0, drags |-> 0,
               vw |-> 1024, vh |-> 768, explicit |-> FALSE, posApplied |-> FALSE,
               lastDragMoved |-> FALSE, minimized |-> FALSE]
  /\ pacing = [stats |-> NoStats, defaultSeconds |-> 0, remaining |-> 0,
               line |-> "", meta |-> -1]
  /\ alarm = [t \in Tabs |-> NoAlarm]
  /\ gesture = NoGesture

\* two tabs on the same key
\* a handler run counted against MaxEvents / not counted
\* (the firing times of the poll are not tracked)
Counted == events < MaxEvents /\ events' = events + 1 /\ tickDue' = tickDue
Uncounted == events' = events /\ tickDue' = tickDue

Next ==
  \/ AdvanceTime(TabSteps, MaxAdvTabs)
  \/ \E t \in Tabs : Counted /\ OnConfigure(t, OneTarget)
  \/ \E t \in Tabs : Counted /\ OnInterval(t)
  \/ \E t \in Tabs : Counted /\ OnVisibilityChange(t)
  \/ \E t \in Tabs : Counted /\ OnStorageEvent(t)
  \/ \E t \in Tabs : Counted /\ OnStartPauseClick(t)
  \/ \E t \in Tabs : Counted /\ OnAdjustClick(t)
  \/ \E t \in Tabs : Counted /\ OnToastAdd5(t)
  \/ \E t \in Tabs : Counted /\ OnToastContinue(t)
  \/ \E t \in Tabs : Counted /\ OnResetClick(t)
  \/ \E t \in Tabs : Counted /\ OnAlarmToggle(t)

Spec == Init /\ [][Next]_vars

\* one tab, sub-second and deadline-sized time steps
NextSolo ==
  \/ AdvanceTime(SoloSteps, MaxAdvSolo)
  \/ \E t \in SoloTabs : Uncounted /\ OnConfigure(t, Targets)
  \/ \E t \in SoloTabs : Uncounted /\ OnInterval(t)
  \/ \E t \in SoloTabs : Uncounted /\ OnVisibilityChange(t)
  \/ \E t \in SoloTabs : Uncounted /\ OnStartPauseClick(t)
  \/ \E t \in SoloTabs : Uncounted /\ OnAdjustClick(t)
  \/ \E t \in SoloTabs : Uncounted /\ OnToastAdd5(t)
  \/ \E t \in SoloTabs : Uncounted /\ OnToastContinue(t)
  \/ \E t \in SoloTabs : Uncounted /\ OnResetClick(t)

SpecSolo == Init /\ [][NextSolo]_vars

\* one tab, the pointer events of the reset control
NextHold ==
  \/ AdvanceTime(HoldSteps, MaxAdvHold)
  \/ \E t \in SoloTabs : Uncounted /\ OnConfigure(t, OneTarget)
  \/ \E t \in SoloTabs : Uncounted /\ OnStartPauseClick(t)
  \/ \E t \in SoloTabs, p \in Pointers : Uncounted /\ OnResetPointerDown(t, p)
  \/ \E t \in SoloTabs, p \in Pointers : Uncounted /\ OnResetPointerUp(t, p)
  \/ \E t \in SoloTabs : Uncounted /\ OnResetTimeout(t)
  \/ \E t \in SoloTabs : Uncounted /\ OnResetClick(t)

SpecHold == Init /\ [][NextHold]_vars

\* one tab whose page is reloaded
NextReload ==
  \/ AdvanceTime(ReloadSteps, MaxAdvReload)
  \/ \E t \in SoloTabs : Uncounted /\ OnConfigure(t, Targets)
  \/ \E t \in SoloTabs : Uncounted /\ OnReload(t, Targets)
  \/ \E t \in SoloTabs : Uncounted /\ OnInterval(t)
  \/ \E t \in SoloTabs : Uncounted /\ OnStartPauseClick(t)
  \/ \E t \in SoloTabs : Uncounted /\ OnToastContinue(t)

SpecReload == Init /\ [][NextReload]_vars

\* two tabs on the same key, every page carrying the timer, with steps of
\* time that take a countdown of one minute to its deadline
NextExpiry ==
  \/ AdvanceTime(ExpirySteps, MaxAdvExpiry)
  \/ \E t \in Tabs : Counted /\ OnConfigureEnabled(t, OneTarget)
  \/ \E t \in Tabs : Counted /\ OnInterval(t)
  \/ \E t \in Tabs : Counted /\ OnStorageEvent(t)
  \/ \E t \in Tabs : Counted /\ OnStartPauseClick(t)

SpecExpiry == Init /\ [][NextExpiry]_vars

\* a handler run counted against MaxControls
CountedControl == events < MaxControls /\ events' = events + 1 /\ tickDue' = tickDue

\* two tabs on the same key: the controls of the widget and the methods of
\* the object, with targets of one minute and of four hours
NextControls ==
  \/ AdvanceTime(ControlSteps, MaxAdvControls)
  \/ \E t \in Tabs : CountedControl /\ OnConfigureEnabled(t, LongTargets)
  \/ \E t \in Tabs : CountedControl /\ OnInterval(t)
  \/ \E t \in Tabs : CountedControl /\ OnStorageEvent(t)
  \/ \E t \in Tabs : CountedControl /\ OnStartPauseClick(t)
  \/ \E t \in Tabs : CountedControl /\ OnAdjustPress(t)
  \/ \E t \in Tabs : CountedControl /\ OnToastAdd5(t)
  \/ \E t \in Tabs : CountedControl /\ OnPauseCall(t)
  \/ \E t \in Tabs : CountedControl /\ OnExtendCall(t)

SpecControls == Init /\ [][NextControls]_vars

\* two tabs on the same key whose polls, page events and visibility events
\* come at any time, early or late
NextClock ==
  \/ AdvanceTime(ClockSteps, MaxAdvClock)
  \/ \E t \in Tabs : CountedControl /\ OnConfigureEnabled(t, OneTarget)
  \/ \E t \in Tabs : CountedControl /\ OnInterval(t)
  \/ \E t \in Tabs : CountedControl /\ OnVisibilityChange(t)
  \/ \E t \in Tabs : CountedControl /\ OnStorageEvent(t)
  \/ \E t \in Tabs : CountedControl /\ OnStartPauseClick(t)

SpecClock == Init /\ [][NextClock]_vars

\* one tab whose countdown reaches its deadline in every audio environment
NextAlert ==
  \/ AdvanceTime(AlertSteps, MaxAdvAlert)
  \/ \E t \in SoloTabs : OnAudioChange(t)
  \/ \E t \in SoloTabs : Uncounted /\ OnConfigureEnabled(t, OneTarget)
  \/ \E t \in SoloTabs : Uncounted /\ OnStartPauseClick(t)
  \/ \E t \in SoloTabs : Uncounted /\ OnAlarmToggle(t)
  \/ \E t \in SoloTabs : Uncounted /\ OnInterval(t)
  \/ \E t \in SoloTabs : Uncounted /\ OnVisibilityChange(t)

SpecAlert == Init /\ [][NextAlert]_vars

\* one tab whose pages all carry the autostart flag: page events, page
\* loads, the poll and the controls
NextAutostart ==
  \/ AdvanceTime(AutostartSteps, MaxAdvAutostart)
  \/ \E t \in SoloTabs, enabled \in BOOLEAN, target \in Targets :
        Uncounted /\ ConfigureWith(t, enabled, target, TRUE)
  \/ \E t \in SoloTabs, enabled \in BOOLEAN, target \in Targets :
        Uncounted /\ ReloadWith(t, enabled, target, TRUE)
  \/ \E t \in SoloTabs : Uncounted /\ OnInterval(t)
  \/ \E t \in SoloTabs : Uncounted /\ OnStartPauseClick(t)
  \/ \E t \in SoloTabs : Uncounted /\ OnResetClick(t)

SpecAutostart == Init /\ [][NextAutostart]_vars

\* one tab whose pages are loaded over a state slot that holds foreign content
NextLoad ==
  \/ AdvanceTime(LoadSteps, MaxAdvLoad)
  \/ OnForeignWrite
  \/ \E t \in SoloTabs : Uncounted /\ OnReload(t, Targets)
  \/ \E t \in SoloTabs : Uncounted /\ OnInterval(t)
  \/ \E t \in SoloTabs : Uncounted /\ OnStartPauseClick(t)

SpecLoad == Init /\ [][NextLoad]_vars

\* One tab run twice on the same events: object "A" with a working
\* localStorage, object "B" with a localStorage that rejects every write.
\* The two runs do not share storage: B reads empty slots and its writes are
\* dropped; stored and active are those of run A.  The pair is followed up
\* to the first state in which the timing fields of the two objects differ.
Timing(s) == <<s.isRunning, s.remaining, s.endAt, s.overtime>>

InStep == Timing(state["A"]) = Timing(state["B"])

CommitPair(op, mA, mB) ==
  LET m == [t \in Tabs |-> IF t = "A" THEN mA ELSE mB] IN
  /\ InStep
  /\ currentKey' = [t \in Tabs |-> m[t].key]
  /\ state' = [t \in Tabs |-> m[t].state]
  /\ tickHandle' = [t \in Tabs |-> m[t].tickHandle]
  /\ readonly' = [t \in Tabs |-> m[t].readonly]
  /\ lastActivePing' = [t \in Tabs |-> m[t].lastActivePing]
  /\ lastReadonlyTickCheck' = [t \in Tabs |-> m[t].lastReadonlyTickCheck]
  /\ resetHoldTimer' = [t \in Tabs |-> m[t].resetHoldTimer]
  /\ resetHoldFired' = [t \in Tabs |-> m[t].resetHoldFired]
  /\ timers' = [t \in Tabs |-> m[t].timers]
  /\ toast' = [t \in Tabs |-> m[t].toast]
  /\ finishes' = [t \in Tabs |-> m[t].finishes]
  /\ stored' = mA.stored
  /\ active' = mA.active
  /\ last' = [op |-> op, tab |-> "A"]
  /\ alarm' = [t \in Tabs |-> m[t].alarm]
  /\ UNCHANGED <<now, adv, storageEv, unseen, pressedAt, heldLong, widget, pacing,
                 gesture>>
  /\ Uncounted

PairConfigure ==
  \E enabled \in BOOLEAN, target \in OneTarget, autostart \in BOOLEAN :
     CommitPair("configure",
                configureFromPage(View("A"), "A", enabled, target, autostart),
                configureFromPage(FailingView("B"), "B", enabled, target, autostart))

PairInterval ==
  /\ tickHandle["A"] \/ tickHandle["B"]
  /\ CommitPair("tick",
                IF tickHandle["A"] THEN tick(View("A"), "A") ELSE View("A"),
                IF tickHandle["B"] THEN tick(FailingView("B"), "B") ELSE FailingView("B"))

PairStartPause ==
  CommitPair("startPause", startPause(View("A"), "A"), startPause(FailingView("B"), "B"))

PairAdjust ==
  \E delta \in {-60, 60} :
     /\ state["A"].remaining + delta >= state["A"].defaultSeconds - 60 * MaxDrift
     /\ state["A"].remaining + delta <= state["A"].defaultSeconds + 60 * MaxDrift
     /\ CommitPair("adjust", adjustSeconds(View("A"), "A", delta),
                   adjustSeconds(FailingView("B"), "B", delta))

PairResetClick ==
  CommitPair("resetClick", onResetClick(View("A"), "A"), onResetClick(FailingView("B"), "B"))

NextPair ==
  \/ InStep /\ AdvanceTime(PairSteps, MaxAdvPair)
  \/ PairConfigure
  \/ PairInterval
  \/ PairStartPause
  \/ PairAdjust
  \/ PairResetClick

SpecPair == Init /\ [][NextPair]_vars

\* the pointer events of the card: dragging the widget
OnlyWidget ==
  UNCHANGED <<now, adv, events, currentKey, state, tickHandle, readonly, lastActivePing,
              lastReadonlyTickCheck, resetHoldTimer, resetHoldFired, timers,
              toast, finishes, stored, active, storageEv, unseen, pressedAt, heldLong,
              tickDue, pacing, alarm, gesture>>

OnDragStart(p) ==
  /\ widget.drags < MaxDrags
  /\ \E pt \in DragStarts, accepted \in BOOLEAN :
        widget' = [onDragStart(widget, p, pt[1], pt[2], accepted)
                     EXCEPT !.drags = @ + 1]
  /\ last' = [op |-> "dragStart", tab |-> "A"]
  /\ OnlyWidget

OnDragMove(p) ==
  /\ \E pt \in DragPoints, sz \in Sizes :
        widget' = onDragMove(widget, p, pt[1], pt[2], sz[1], sz[2], widget.vw, widget.vh)
  /\ last' = [op |-> "dragMove", tab |-> "A"]
  /\ OnlyWidget

OnDragEnd(p) ==
  /\ \E sz \in Sizes :
        widget' = onDragEnd(widget, p, sz[1], sz[2], widget.vw, widget.vh)
  /\ last' = [op |-> "dragEnd", tab |-> "A"]
  /\ OnlyWidget

NextDrag ==
  \/ \E p \in Pointers : OnDragStart(p)
  \/ \E p \in Pointers : OnDragMove(p)
  \/ \E p \in Pointers : OnDragEnd(p)

SpecDrag == Init /\ [][NextDrag]_vars

\* the pointer events and the clicks of the card of a tab whose page carries
\* the timer
CardFrame ==
  UNCHANGED <<now, adv, events, currentKey, state, tickHandle, readonly, lastActivePing,
              lastReadonlyTickCheck, resetHoldTimer, resetHoldFired, timers,
              toast, finishes, stored, active, storageEv, unseen, pressedAt, heldLong,
              tickDue, pacing, alarm>>

OnCardPointerDown(t, p) ==
  /\ currentKey[t] # NoKey
  /\ widget.drags < MaxPresses
  /\ ~gesture.down[p]
  /\ \E pt \in DragStarts, accepted \in BOOLEAN :
        /\ widget' = [onDragStart(widget, p, pt[1], pt[2], accepted)
                        EXCEPT !.drags = @ + 1]
        /\ gesture' = IF accepted
                      THEN [gesture EXCEPT !.down[p] = TRUE, !.far[p] = FALSE]
                      ELSE gesture
  /\ last' = [op |-> "dragStart", tab |-> t]
  /\ CardFrame

OnCardPointerMove(t, p) ==
  /\ currentKey[t] # NoKey
  /\ \E pt \in CardPoints, sz \in Sizes :
        /\ widget' = onDragMove(widget, p, pt[1], pt[2], sz[1], sz[2], widget.vw, widget.vh)
        /\ gesture' = IF gesture.down[p] /\ pt[1] * pt[1] + pt[2] * pt[2] >= 36
                      THEN [gesture EXCEPT !.far[p] = TRUE]
                      ELSE gesture
  /\ last' = [op |-> "dragMove", tab |-> t]
  /\ CardFrame

\* pointerup or pointercancel
OnCardPointerUp(t, p) ==
  /\ currentKey[t] # NoKey
  /\ \E sz \in Sizes :
        widget' = onDragEnd(widget, p, sz[1], sz[2], widget.vw, widget.vh)
  /\ gesture' = IF gesture.down[p]
                THEN [gesture EXCEPT !.down[p] = FALSE, !.far[p] = FALSE,
                                     !.released = IF gesture.far[p] THEN "drag" ELSE "tap"]
                ELSE gesture
  /\ last' = [op |-> "dragEnd", tab |-> t]
  /\ CardFrame

\* a click handler that may toggle the minimized view: toggleMinimize
\* persists and renders
ClickWith(t, w) ==
  /\ widget' = w
  /\ CommitState(t, "minimize",
                 IF w.minimized # widget.minimized THEN render(persist(View(t)))
                 ELSE View(t), {})
  /\ gesture' = [gesture EXCEPT !.released = "none"]
  /\ UNCHANGED <<now, adv, pressedAt, heldLong>>
  /\ Uncounted

CardClickWith(t, interactive) ==
  /\ currentKey[t] # NoKey
  /\ ClickWith(t, onCardClick(widget, interactive, state[t] # NullState))

OnCardClick(t) ==
  \E interactive \in BOOLEAN : CardClickWith(t, interactive)

OnMinimizeClick(t) ==
  /\ currentKey[t] # NoKey
  /\ ClickWith(t, toggleMinimize(widget, state[t] # NullState))

NextCard ==
  \/ \E t \in SoloTabs : Uncounted /\ ConfigureWith(t, TRUE, 1, FALSE)
  \/ \E t \in SoloTabs, p \in Pointers : OnCardPointerDown(t, p)
  \/ \E t \in SoloTabs, p \in Pointers : OnCardPointerMove(t, p)
  \/ \E t \in SoloTabs, p \in Pointers : OnCardPointerUp(t, p)
  \/ \E t \in SoloTabs : OnCardClick(t)
  \/ \E t \in SoloTabs : OnMinimizeClick(t)

SpecCard == Init /\ [][NextCard]_vars

\* the pointer events of the card, the resize events of the window and the
\* loads of a page.  A load starts from a container without inline position,
\* which the style sheet puts in the bottom-right corner, and a new object;
\* the position slot of localStorage is kept.
OnResize ==
  /\ \E vp \in Viewports, sz \in Sizes :
        /\ <<widget.vw, widget.vh>> # vp
        /\ widget' = clampToViewport([widget EXCEPT !.vw = vp[1], !.vh = vp[2]],
                                     sz[1], sz[2])
  /\ last' = [op |-> "resize", tab |-> "A"]
  /\ OnlyWidget

OnPageLoad ==
  /\ \E sz \in Sizes :
        LET anchor == getCornerAnchors(sz[1], sz[2], widget.vw, widget.vh)["br"]
            fresh == [widget EXCEPT !.left = anchor.left, !.top = anchor.top,
                                    !.explicit = FALSE, !.posApplied = FALSE,
                                    !.drag = NoDrag, !.hasLast = FALSE,
                                    !.lastDragMoved = FALSE]
        IN  widget' = applySavedPositionOnce(fresh, sz[1], sz[2])
  /\ last' = [op |-> "load", tab |-> "A"]
  /\ OnlyWidget

NextResize ==
  \/ \E p \in OnePointer : OnDragStart(p)
  \/ \E p \in OnePointer : OnDragMove(p)
  \/ \E p \in OnePointer : OnDragEnd(p)
  \/ OnResize
  \/ OnPageLoad

SpecResize == Init /\ [][NextResize]_vars

\* the pacing lines of render: pacing holds the counts of the page
\* (sessionStats), the defaultSeconds of the state, the remaining seconds
\* render passes on, and the two texts applyPacing writes (line "" until
\* render has run on these values).
PacingTotals == {10, 18}
PacingExpected == {0, 20}
PacingDefaults == {600, 6000}
PacingRemaining == {-5, 0, 200, 800, 2699, 2700, 3300, 3301, 3400}

PacingStats ==
  {NoStats} \cup
  {[total |-> t, done |-> d, expectedTotal |-> e, expectedDone |-> x] :
     t \in PacingTotals, d \in 0..Max(10, 18), e \in PacingExpected, x \in {5}}

PacingFrame ==
  UNCHANGED <<now, adv, events, currentKey, state, tickHandle, readonly, lastActivePing,
              lastReadonlyTickCheck, resetHoldTimer, resetHoldFired, timers,
              toast, finishes, stored, active, storageEv, unseen, pressedAt, heldLong,
              tickDue, widget, alarm, gesture>>

\* the page supplies counts and the state has a target and a time left
OnSyncStats ==
  /\ \E stats \in PacingStats, d \in PacingDefaults, r \in PacingRemaining :
        /\ stats.done <= stats.total
        /\ pacing' = [stats |-> stats, defaultSeconds |-> d, remaining |-> r,
                      line |-> "", meta |-> -1]
  /\ last' = [op |-> "syncStats", tab |-> "A"]
  /\ PacingFrame

OnRenderPacing ==
  /\ pacing.line = ""
  /\ LET out == applyPacing(pacing.stats, pacing.defaultSeconds, pacing.remaining)
     IN  pacing' = [pacing EXCEPT !.line = out.line, !.meta = out.meta]
  /\ last' = [op |-> "render", tab |-> "A"]
  /\ PacingFrame

NextPacing ==
  \/ OnSyncStats
  \/ OnRenderPacing

SpecPacing == Init /\ [][NextPacing]_vars

\* one tab with the poll firing on schedule: tickDue[t] is the time the
\* interval created by startTick fires next (0: no interval); time does not
\* advance past it before the poll has run.
Scheduled(t) ==
  tickDue' = [tickDue EXCEPT ![t] = IF ~tickHandle'[t] THEN 0
                                    ELSE IF ~tickHandle[t] THEN now + TICK_MS
                                    ELSE @]

CountedScheduled(t) ==
  /\ adv <= MaxAdvUser
  /\ events < MaxEvents
  /\ events' = events + 1
  /\ Scheduled(t)

AdvanceToPoll ==
  /\ AdvanceTime(PollSteps, MaxAdvPoll)
  /\ \A t \in SoloTabs : tickHandle[t] => now' <= tickDue[t]

OnPoll(t) ==
  /\ now = tickDue[t]
  /\ OnInterval(t)
  /\ events' = events
  /\ tickDue' = [tickDue EXCEPT ![t] = IF tickHandle'[t] THEN @ + TICK_MS ELSE 0]

NextPoll ==
  \/ AdvanceToPoll
  \/ \E t \in SoloTabs : OnPoll(t)
  \/ \E t \in SoloTabs, target \in OneTarget, autostart \in BOOLEAN :
        ConfigureWith(t, TRUE, target, autostart) /\ CountedScheduled(t)
  \/ \E t \in SoloTabs : OnStartPauseClick(t) /\ CountedScheduled(t)
  \/ \E t \in SoloTabs, p \in OnePointer : OnResetPointerDown(t, p) /\ CountedScheduled(t)
  \/ \E t \in SoloTabs, p \in OnePointer : OnResetPointerUp(t, p) /\ CountedScheduled(t)
  \/ \E t \in SoloTabs : OnToastContinue(t) /\ CountedScheduled(t)

SpecPoll == Init /\ [][NextPoll]_vars

\* ===================================================================== claims
RunningCountdown(t) ==
  state[t] # NullState /\ state[t].isRunning /\ ~state[t].overtime /\ state[t].endAt # 0

RunningOvertime(t) ==
  state[t] # NullState /\ state[t].isRunning /\ state[t].overtime

\* a handler of tab b that re-reads the lease before anything else
LeaseCheckBy(b) ==
  \/ OnStartPauseClick(b)
  \/ OnVisibilityChange(b)
  \/ OnStorageEvent(b)
  \/ OnAdjustClick(b)

\* C1: two tabs never both mutate the timer independently: a mutating action
\* of a tab is never accepted and written to the state slot while that slot
\* holds a mutating write of the other tab that the acting tab has not loaded.
C1_NoIndependentMutation ==
  [][\A t \in Tabs :
       (/\ last'.tab = t
        /\ last'.op \in MutatingOps
        /\ stored' = state'[t]
        /\ ~unseen'[t]
        /\ \A u \in Tabs \ {t} : unseen'[u])
       => ~unseen[t]]_vars

\* C2: while the lease of tab a is younger than the TTL every lease check of
\* another tab b on the same key leaves b read-only; once the TTL has elapsed the check leaves
\* b writable and b's start/pause writes a lease owned by b.
C2_LeaseExclusivity ==
  [][\A a \in Tabs, b \in Tabs :
       (a # b /\ currentKey[b] = KEY /\ active.tabId = a /\ LeaseCheckBy(b))
       => /\ (now - active.updatedAt < ACTIVE_TTL_MS => readonly'[b])
          /\ (now - active.updatedAt >= ACTIVE_TTL_MS => ~readonly'[b])
          /\ (now - active.updatedAt >= ACTIVE_TTL_MS /\ OnStartPauseClick(b)
                => active'.tabId = b)]_vars

\* a poll tick, a change to visible, or a configure event of an enabled page
ClockEvent(t) ==
  \/ OnInterval(t)
  \/ OnVisibilityChange(t)
  \/ \E target \in Targets, autostart \in BOOLEAN : ConfigureWith(t, TRUE, target, autostart)

\* C3: in one tab, the first tick / visibility / (enabled) configure event
\* handled at or after the deadline of a running countdown executes finish,
\* leaving remaining = 0 and isRunning = false; finish runs at most once per
\* start; remaining becomes negative only in overtime, and overtime is
\* entered only by the explicit continue action.
C3_FinishOnce ==
  /\ [](\A t \in SoloTabs : finishes[t] <= 1)
  /\ [][\A t \in SoloTabs :
          /\ (RunningCountdown(t) /\ now >= state[t].endAt /\ ClockEvent(t))
             => /\ finishes'[t] = finishes[t] + 1
                /\ ~state'[t].isRunning
                /\ state'[t].remaining = 0
                /\ state'[t].endAt = 0
          /\ (state[t].remaining >= 0 /\ state'[t].remaining < 0)
             => state[t].overtime
          /\ (~state[t].overtime /\ state'[t].overtime) => OnToastContinue(t)]_vars

C3_Witness ==
  /\ last = [op |-> "tick", tab |-> "A"]
  /\ finishes["A"] = 1
  /\ state["A"].defaultSeconds = 5400
  /\ state["A"].remaining = 0
  /\ ~state["A"].isRunning
  /\ lastActivePing["A"] # 0
  /\ now >= lastActivePing["A"] + 5400000

\* C4: pausing a countdown that was started with remaining = D less than one
\* second ago (its deadline is more than D-1 and at most D seconds ahead)
\* yields isRunning = false, deadlineAt = null and |remaining - D| <= 1.
C4_StartThenPause ==
  [][\A t \in SoloTabs :
       (/\ RunningCountdown(t)
        /\ state[t].endAt - now > (state[t].defaultSeconds - 1) * 1000
        /\ state[t].endAt - now <= state[t].defaultSeconds * 1000
        /\ OnStartPauseClick(t))
       => /\ ~state'[t].isRunning
          /\ state'[t].endAt = 0
          /\ state'[t].remaining >= state[t].defaultSeconds - 1
          /\ state'[t].remaining <= state[t].defaultSeconds + 1]_vars

C4_Witness ==
  /\ last = [op |-> "startPause", tab |-> "A"]
  /\ ~state["A"].isRunning
  /\ state["A"].endAt = 0
  /\ state["A"].remaining = state["A"].defaultSeconds
  /\ stored = state["A"]
  /\ now - lastActivePing["A"] = 250

\* C5: while running, a reset takes effect only if some press on the reset
\* control has been held for at least 600ms, and a press released before
\* 600ms leaves the timing state unchanged and shows the hold hint.
C5_ResetNeedsHold ==
  [][\A t \in SoloTabs :
       /\ (state[t].isRunning /\ ~state'[t].isRunning /\ OnResetTimeout(t))
          => \/ heldLong[t]
             \/ \E p \in Pointers :
                  pressedAt[t][p] # 0 /\ now - pressedAt[t][p] >= RESET_HOLD_MS
       /\ \A p \in Pointers :
            (/\ state[t].isRunning
             /\ pressedAt[t][p] # 0
             /\ now - pressedAt[t][p] < RESET_HOLD_MS
             /\ OnResetPointerUp(t, p))
            => state'[t] = state[t] /\ toast'[t] = "hold"]_vars

\* a configure event of an enabled page whose target differs from the
\* current default, handled while a countdown is running
ReconfigureRunning(t) ==
  /\ RunningCountdown(t)
  /\ \E target \in Targets, autostart \in BOOLEAN :
        /\ clampInt(target * 60, 60, MAX_SECONDS) # state[t].defaultSeconds
        /\ ConfigureWith(t, TRUE, target, autostart)

ReconfigureKeepsTiming(t) ==
  /\ state'[t].endAt = state[t].endAt
  /\ state'[t].defaultSeconds = state[t].defaultSeconds
  /\ state'[t].isRunning
  /\ (state'[t].remaining - 1) * 1000 < state[t].endAt - now
  /\ state[t].endAt - now <= state'[t].remaining * 1000

\* C6 (as stated): reconfiguring the target while running never alters
\* deadlineAt, defaultSeconds, and remaining stays the clock value.
C6_ReconfigureWhileRunning ==
  [][\A t \in SoloTabs :
       ReconfigureRunning(t)
       => /\ state'[t].endAt = state[t].endAt
          /\ state'[t].defaultSeconds = state[t].defaultSeconds]_vars

\* C6 (amended): reconfiguring the target while a countdown is running and
\* its deadline has not yet passed leaves deadlineAt and defaultSeconds
\* unchanged, keeps the timer running, and remaining is the clock value of
\* the unchanged deadline.
C6_ReconfigureBeforeDeadline ==
  [][\A t \in SoloTabs :
       (ReconfigureRunning(t) /\ now < state[t].endAt)
       => ReconfigureKeepsTiming(t)]_vars

C6_Witness ==
  /\ last = [op |-> "reconfigure", tab |-> "A"]
  /\ state["A"].isRunning
  /\ state["A"].defaultSeconds = 60
  /\ state["A"].endAt = lastActivePing["A"] + 60000
  /\ now = lastActivePing["A"] + 500
  /\ state["A"].remaining = 60

\* C7 (as stated): the countdown clock value is max(0, round((deadline-now)/1000)).
C7_ClockRounds ==
  \A t \in Tabs :
    state[t].endAt # 0
    => computeRemainingFromEndAt(state[t].endAt)
         = Max(0, RoundDiv(state[t].endAt - now, 1000))

\* C7 (amended): the countdown clock value is max(0, ceil((deadline-now)/1000)):
\* it is 0 once the deadline has passed, and otherwise the least r with
\* r*1000 >= deadline - now.
C7_ClockCeils ==
  \A t \in Tabs :
    state[t].endAt # 0
    => LET r == computeRemainingFromEndAt(state[t].endAt)
           msLeft == state[t].endAt - now
       IN  IF msLeft <= 0 THEN r = 0
           ELSE (r - 1) * 1000 < msLeft /\ msLeft <= r * 1000

C7_Witness ==
  /\ last = [op |-> "tick", tab |-> "A"]
  /\ state["A"].isRunning
  /\ state["A"].endAt - now = 59250
  /\ state["A"].remaining = 60

\* C8: after a poll tick or a render (visibility) handled by a writable tab
\* running in overtime, remaining = -max(0, floor((now - overtimeStartAt)/1000)).
C8_OvertimeCountsUp ==
  [][\A t \in SoloTabs :
       (RunningOvertime(t) /\ ~readonly'[t] /\ (OnInterval(t) \/ OnVisibilityChange(t)))
       => LET e == -state'[t].remaining
              ms == now - state[t].overtimeStartAt
          IN  /\ e >= 0
              /\ e * 1000 <= Max(0, ms)
              /\ Max(0, ms) < (e + 1) * 1000
              /\ state'[t].overtime
              /\ state'[t].overtimeStartAt = state[t].overtimeStartAt]_vars

C8_Witness ==
  /\ last = [op |-> "tick", tab |-> "A"]
  /\ state["A"].isRunning
  /\ state["A"].overtime
  /\ now - state["A"].overtimeStartAt = 60250
  /\ state["A"].remaining = -60

RunningHasAnchor(s) ==
  s.isRunning => /\ (s.overtime => s.overtimeStartAt # 0)
                 /\ (~s.overtime => s.endAt # 0)

\* C9: every in-memory state, the state slot, and the state a load of the
\* slot returns satisfy
\* isRunning => (overtime => overtimeStartAt # null) /\ (~overtime => deadlineAt # null).
C9_RunningHasAnchor ==
  /\ \A t \in Tabs : RunningHasAnchor(state[t])
  /\ RunningHasAnchor(stored)
  /\ RunningHasAnchor(loadState(stored))

C9_Witness ==
  /\ last = [op |-> "storage", tab |-> "B"]
  /\ state["B"].isRunning
  /\ state["B"] = stored
  /\ active.tabId = "A"
  /\ readonly["B"]

\* C10: remaining < 0 implies overtime, in memory and in the state slot.
C10_NegativeOnlyInOvertime ==
  /\ \A t \in Tabs : state[t].remaining < 0 => state[t].overtime
  /\ stored.remaining < 0 => stored.overtime

\* C11: |remaining| <= MAX_SECONDS (4h) in every in-memory state and in the
\* state slot, however long overtime keeps running.
C11_RemainingBounded ==
  /\ \A t \in Tabs : /\ state[t].remaining >= -MAX_SECONDS
                     /\ state[t].remaining <= MAX_SECONDS
  /\ stored.remaining >= -MAX_SECONDS
  /\ stored.remaining <= MAX_SECONDS

\* C12: a lease check finding a record owned by another tab leaves the
\* checking tab read-only exactly when now - updatedAt < ACTIVE_TTL_MS; from
\* ACTIVE_TTL_MS on the record is stale and the checking tab is writable.
C12_LiveIffYoungerThanTTL ==
  \A t \in Tabs :
    (currentKey[t] = KEY /\ active # NoLease /\ active.tabId # t)
    => (checkReadOnly(View(t), t).readonly <=> now - active.updatedAt < ACTIVE_TTL_MS)

\* the lease slot holds a record of another tab younger than the TTL
LiveForeignLease(t) ==
  /\ state[t] # NullState
  /\ currentKey[t] = KEY
  /\ active # NoLease
  /\ active.tabId # t
  /\ now - active.updatedAt < ACTIVE_TTL_MS

\* start/pause, adjust, extend, enter overtime, reset (a click while not
\* running) and the alarm toggle
UserAction(t) ==
  \/ OnStartPauseClick(t)
  \/ OnAdjustClick(t)
  \/ OnToastAdd5(t)
  \/ OnToastContinue(t)
  \/ (~state[t].isRunning /\ OnResetClick(t))
  \/ OnAlarmToggle(t)

\* C13: a user action invoked while the lease slot holds a live record of
\* another tab is rejected: the tab's timer state, the state slot and the
\* lease slot are unchanged and the tab is read-only afterwards.
C13_RejectedWhenLeasedElsewhere ==
  [][\A t \in Tabs :
       (LiveForeignLease(t) /\ UserAction(t))
       => /\ state'[t] = state[t]
          /\ stored' = stored
          /\ active' = active
          /\ readonly'[t]]_vars

C13_Witness ==
  /\ last = [op |-> "startPause", tab |-> "B"]
  /\ readonly["B"]
  /\ toast["B"] = "readonly"
  /\ ~state["B"].isRunning
  /\ active.tabId = "A"
  /\ now - active.updatedAt < ACTIVE_TTL_MS
  /\ stored.isRunning

HeartbeatDue(t) ==
  /\ state[t] # NullState
  /\ state[t].isRunning
  /\ ~readonly[t]
  /\ tickHandle[t]
  /\ active.tabId = t

HandlerResults(t) ==
  {tick(View(t), t), onVisibility(View(t), t), onStorage(View(t), t),
   startPause(View(t), t), startOvertime(View(t), t), onResetClick(View(t), t),
   toggleAlarm(View(t), t), addExtraSeconds(View(t), t, 300, TRUE),
   onResetHoldEnd(View(t))}
  \cup {adjustSeconds(View(t), t, delta) : delta \in {-60, 60}}
  \cup {onResetHoldStart(View(t), t, leftButton) : leftButton \in BOOLEAN}
  \cup {resetHoldTimeout(View(t), t, due) : due \in timers[t]}
  \cup {configureFromPage(View(t), t, c[1], c[2], c[3]) :
           c \in BOOLEAN \X Targets \X BOOLEAN}

\* C16: a storage notification handled while the lease slot holds a live
\* record of another tab leaves the tab read-only at once, and while the tab
\* is read-only and that record is live no handler of the tab writes the
\* state slot or the lease slot.
C16_DemotedOnStorageEvent ==
  /\ [][\A t \in Tabs :
          (OnStorageEvent(t) /\ LiveForeignLease(t)) => readonly'[t]]_vars
  /\ [](\A t \in Tabs :
          (readonly[t] /\ LiveForeignLease(t))
          => \A r \in HandlerResults(t) :
                r.wrote = {} /\ r.stored = stored /\ r.active = active)

C16_Witness ==
  /\ last = [op |-> "storage", tab |-> "B"]
  /\ readonly["B"]
  /\ LiveForeignLease("B")
  /\ state["A"].isRunning
  /\ lastActivePing["A"] = active.updatedAt
  /\ storageEv["B"] = {}

\* C17: reloading the page (on a page with the timer) while the state slot
\* holds a running countdown with deadline d restores it: before d the tab
\* runs again with deadlineAt = d, the poll active and remaining the clock
\* value of d; at or after d the reload performs finish.
C17_SurvivesReload ==
  [][\A t \in SoloTabs :
       (/\ stored.isRunning /\ ~stored.overtime /\ stored.endAt # 0
        /\ \E target \in Targets, autostart \in BOOLEAN :
              ReloadWith(t, TRUE, target, autostart))
       => IF now < stored.endAt
          THEN /\ state'[t].isRunning
               /\ ~state'[t].overtime
               /\ state'[t].endAt = stored.endAt
               /\ tickHandle'[t]
               /\ (state'[t].remaining - 1) * 1000 < stored.endAt - now
               /\ stored.endAt - now <= state'[t].remaining * 1000
          ELSE /\ ~state'[t].isRunning
               /\ state'[t].remaining = 0]_vars

C17_Witness ==
  /\ last = [op |-> "reload", tab |-> "A"]
  /\ state["A"].isRunning
  /\ tickHandle["A"]
  /\ lastActivePing["A"] = 0
  /\ state["A"].endAt = stored.endAt
  /\ state["A"].endAt - now = 59750
  /\ state["A"].remaining = 60

\* a configure event of an enabled page with the given target, handled
\* while the tab has a state that is not running and whose default differs
ReconfigureIdle(t, target) ==
  /\ state[t] # NullState
  /\ ~state[t].isRunning
  /\ clampInt(target * 60, 60, MAX_SECONDS) # state[t].defaultSeconds
  /\ \E autostart \in BOOLEAN : ConfigureWith(t, TRUE, target, autostart)

\* C18 (as stated): reconfiguring the target while not running sets
\* defaultSeconds to the new value and changes remaining (to the new default)
\* only if it equalled the old default; every other value, 0 included, stays.
C18_SnapOnlyFromOldDefault ==
  [][\A t \in SoloTabs, target \in Targets :
       ReconfigureIdle(t, target)
       => /\ state'[t].defaultSeconds = clampInt(target * 60, 60, MAX_SECONDS)
          /\ state'[t].remaining =
                IF state[t].remaining = state[t].defaultSeconds
                THEN clampInt(target * 60, 60, MAX_SECONDS)
                ELSE state[t].remaining]_vars

\* C18 (amended): reconfiguring the target while not running sets
\* defaultSeconds to the new value and changes remaining (to the new default)
\* exactly if it equalled the old default or was 0; every other value stays.
C18_SnapFromOldDefaultOrZero ==
  [][\A t \in SoloTabs, target \in Targets :
       ReconfigureIdle(t, target)
       => /\ state'[t].defaultSeconds = clampInt(target * 60, 60, MAX_SECONDS)
          /\ ~state'[t].isRunning
          /\ state'[t].remaining =
                IF state[t].remaining = state[t].defaultSeconds \/ state[t].remaining = 0
                THEN clampInt(target * 60, 60, MAX_SECONDS)
                ELSE state[t].remaining]_vars

C18_Witness ==
  /\ last = [op |-> "reconfigure", tab |-> "A"]
  /\ ~state["A"].isRunning
  /\ state["A"].defaultSeconds = 5400
  /\ state["A"].remaining = 120
  /\ stored = state["A"]

\* C19: fed the same user actions, poll ticks and configure events, the tab
\* whose storage writes all fail goes through the same in-memory timing
\* states (isRunning, remaining, deadlineAt, overtime) as the tab whose
\* storage writes succeed.
C19_SameTimingWhenWritesFail ==
  Timing(state["A"]) = Timing(state["B"])

\* the release (pointerup or pointercancel) of a drag that moved the widget
ReleasedDrag ==
  \E p \in Pointers :
     widget.drag # NoDrag /\ widget.drag.pointerId = p /\ widget.drag.moved /\ OnDragEnd(p)

\* the position slot holds a corner nearest to (left, top) and the offset
\* of (left, top) from its anchor
SnappedFrom(left, top, w, anchors) ==
  /\ w.corner \in DOMAIN anchors
  /\ \A c \in DOMAIN anchors :
        Hypot2(left - anchors[w.corner].left, top - anchors[w.corner].top)
          <= Hypot2(left - anchors[c].left, top - anchors[c].top)
  /\ w.offsetX = left - anchors[w.corner].left
  /\ w.offsetY = top - anchors[w.corner].top

InsidePadded(w, width, height) ==
  /\ PAD <= w.left
  /\ w.left <= Max(PAD, w.vw - width - PAD)
  /\ PAD <= w.top
  /\ w.top <= Max(PAD, w.vh - height - PAD)

\* the handlers that position the container
Positioning == {"dragMove", "dragEnd", "load", "resize"}

\* C21: after every drag move, drag release, restore of the saved position
\* and resize of the window, a widget that has an explicit position satisfies
\* 12 <= left <= max(12, vw - width - 12) and 12 <= top <= max(12, vh -
\* height - 12).
C21_InsidePaddedViewport ==
  [][(last'.op \in Positioning /\ widget'.explicit)
       => \A sz \in Sizes : InsidePadded(widget', sz[1], sz[2])]_vars

\* C22: after a resize of the window, when the saved position is a corner c
\* with an offset, the position is the anchor of c in the new window plus the
\* offset, clamped into the padded window.
C22_ResizeFollowsCorner ==
  [][(OnResize /\ widget.corner # "")
       => \A sz \in Sizes :
            LET anchor == getCornerAnchors(sz[1], sz[2], widget'.vw, widget'.vh)[widget.corner]
                pos == clampPos(anchor.left + widget.offsetX, anchor.top + widget.offsetY,
                                sz[1], sz[2], widget'.vw, widget'.vh)
            IN  widget'.left = pos.left /\ widget'.top = pos.top]_vars

\* the counts of the claim: work left, and no expected counts from the page
PacingFromItems ==
  /\ pacing.line # ""
  /\ pacing.stats # NoStats
  /\ pacing.stats.total > 0
  /\ pacing.stats.done >= 0
  /\ pacing.stats.done < pacing.stats.total
  /\ pacing.stats.expectedTotal = 0

\* C23: with total > 0, done < total and no expected counts, diff =
\* max(0, remaining) - (total - done) * defaultSeconds / total; the line says
\* ahead exactly when diff > 300, behind exactly when diff < -300 and on pace
\* otherwise, and the meta line reports total - done; for defaultSeconds =
\* 6000, total = 10, done = 5 and remaining = 3400 the result is ahead with
\* 5 items.  (diff * total is compared with 300 * total.)
C23_PacingBand ==
  PacingFromItems =>
    LET total == pacing.stats.total
        items == total - pacing.stats.done
        diffTimesTotal == Max(0, pacing.remaining) * total - items * pacing.defaultSeconds
    IN  /\ (pacing.line = "Adiantado") = (diffTimesTotal > 300 * total)
        /\ (pacing.line = "Atrasado") = (diffTimesTotal < -300 * total)
        /\ pacing.line \in {"Adiantado", "Atrasado", "No ritmo"}
        /\ pacing.meta = items
        /\ (pacing.defaultSeconds = 6000 /\ total = 10 /\ items = 5 /\ pacing.remaining = 3400)
           => (pacing.line = "Adiantado" /\ pacing.meta = 5)

\* the state of buildInitialState for a target in minutes
DefaultInit(s, target) ==
  /\ ~s.isRunning
  /\ s.defaultSeconds = clampInt(target * 60, 60, MAX_SECONDS)
  /\ s.remaining = s.defaultSeconds
  /\ s.endAt = 0
  /\ ~s.overtime

Unattended == {"tick", "storage", "visibility", "configure", "reconfigure"}

\* the state slot holds a record that a pause or a reset has written
StoppedInSlot == stored # NullState /\ ~stored.isRunning /\ stored.remaining > 0

\* C25: once the owner has paused or reset (the state slot says not running),
\* no handler of a tab that runs without a start by the user in that tab
\* writes isRunning = true to the state slot or writes a lease; a tab that
\* adopted the running state and is polling does not take over when the
\* owner's lease record disappears.
C25_PauseIsFinal ==
  [][\A t \in Tabs :
       (StoppedInSlot /\ last'.tab = t /\ last'.op \in Unattended)
       => /\ ~stored'.isRunning
          /\ active'.tabId = t => active' = active]_vars

\* C26: while the lease slot holds a live record (not older than the TTL) of
\* another tab, no handler of a tab writes the state slot or the lease slot.
C26_NoWriteUnderForeignLease ==
  [][\A t \in Tabs :
       (LiveForeignLease(t) /\ last'.tab = t)
       => stored' = stored /\ active' = active]_vars

\* C27: on an enabled widget a running state has the poll active, also when
\* the running state was adopted on a storage notification or loaded on
\* activation.
C27_RunningIsPolling ==
  \A t \in Tabs :
     (currentKey[t] = KEY /\ state[t] # NullState /\ state[t].isRunning) => tickHandle[t]

\* C28: the finished notification of a started countdown is raised by at
\* most one tab: a tab executes finish only while it owns the lease and is
\* not read-only, and only for a countdown that the state slot still shows
\* as running (no tab has finished it before).
C28_OnlyOwnerFinishes ==
  [][\A t \in Tabs :
       finishes'[t] > finishes[t]
       => /\ ~readonly[t]
          /\ active.tabId = t
          /\ stored.isRunning]_vars

\* C29: overtime is entered only from Finished (not running, remaining = 0),
\* never from a running, paused or idle timer with time left.
C29_OvertimeOnlyFromFinished ==
  [][\A t \in Tabs :
       (state[t] # NullState /\ ~state[t].overtime /\ state'[t].overtime)
       => ~state[t].isRunning /\ state[t].remaining = 0]_vars

\* the lease slot holds a record of another tab that checkReadOnly does not
\* find stale
LeasedElsewhere(t) ==
  /\ active # NoLease
  /\ active.tabId # t
  /\ ~(active.updatedAt # 0 /\ now - active.updatedAt > ACTIVE_TTL_MS)

\* C30: a start from a non-running state that is accepted (the lease is not
\* held elsewhere) takes r = remaining if remaining > 0, else defaultSeconds,
\* and leaves isRunning = true, overtime = false, overtimeStartAt = null,
\* deadlineAt = now + r * 1000, the poll active and the lease owned by this
\* tab with updatedAt = now; a rejected start changes none of these.
C30_StartPostcondition ==
  [][\A t \in Tabs :
       (state[t] # NullState /\ ~state[t].isRunning /\ OnStartPauseClick(t))
       => IF LeasedElsewhere(t)
          THEN /\ state'[t] = state[t]
               /\ tickHandle'[t] = tickHandle[t]
               /\ active' = active
               /\ stored' = stored
          ELSE LET r == IF state[t].remaining > 0 THEN state[t].remaining
                        ELSE state[t].defaultSeconds
               IN  /\ state'[t].isRunning
                   /\ ~state'[t].overtime
                   /\ state'[t].overtimeStartAt = 0
                   /\ state'[t].endAt = now + r * 1000
                   /\ tickHandle'[t]
                   /\ active' = [tabId |-> t, updatedAt |-> now]]_vars

\* tab A right after an accepted start
C30_Witness ==
  /\ last = [op |-> "startPause", tab |-> "A"]
  /\ state["A"].isRunning
  /\ ~state["A"].overtime
  /\ state["A"].endAt = now + state["A"].remaining * 1000
  /\ tickHandle["A"]
  /\ active = [tabId |-> "A", updatedAt |-> now]
  /\ stored = state["A"]

\* pause() runs in tab t: called by a script, or by the start/pause control
\* after the lease check has let the click through
PauseRuns(t) ==
  \/ OnPauseCall(t)
  \/ ~LeasedElsewhere(t) /\ state[t] # NullState /\ state[t].isRunning
     /\ OnStartPauseClick(t)

\* C31: pause changes nothing unless the timer is running; pausing a running
\* countdown sets remaining to the clock value of the deadline at that
\* moment, isRunning = false and deadlineAt = null, stops the poll and leaves
\* the lease slot without a record owned by this tab.
C31_PausePostcondition ==
  [][\A t \in Tabs :
       /\ (OnPauseCall(t) /\ (state[t] = NullState \/ ~state[t].isRunning))
          => /\ state'[t] = state[t]
             /\ tickHandle'[t] = tickHandle[t]
             /\ stored' = stored
             /\ active' = active
       /\ (PauseRuns(t) /\ RunningCountdown(t))
          => /\ state'[t].remaining = Max(0, CeilDiv(state[t].endAt - now, 1000))
             /\ ~state'[t].isRunning
             /\ state'[t].endAt = 0
             /\ ~tickHandle'[t]
             /\ active'.tabId # t]_vars

\* tab A right after it paused a countdown of four hours one minute after
\* the start
C31_Witness ==
  /\ last.tab = "A"
  /\ last.op \in {"pause", "startPause"}
  /\ ~state["A"].isRunning
  /\ state["A"].endAt = 0
  /\ state["A"].remaining = state["A"].defaultSeconds - 60
  /\ state["A"].defaultSeconds = 14400
  /\ ~tickHandle["A"]
  /\ active = NoLease

\* Math.max(0, Math.ceil((endAt - now) / 1000))
ClockValue(endAt) == Max(0, -((now - endAt) \div 1000))

\* a poll, a page event that renders, or the tab becoming visible
RenderEvent(t) ==
  \/ OnInterval(t)
  \/ OnVisibilityChange(t)
  \/ OnConfigureEnabled(t, OneTarget)

\* C32: after a poll tick, a render or a visibility event handled at time
\* now by a writable tab that runs a countdown, remaining is the clock value
\* of (deadlineAt, now), whatever ticks fired before and however late they
\* were; the deadline itself is not moved.  The same holds for the render
\* that follows a storage event, with the deadline the tab then has.
C32_RemainingFromDeadline ==
  [][\A t \in Tabs :
       /\ (RunningCountdown(t) /\ ~readonly'[t] /\ RenderEvent(t))
          => /\ state'[t].remaining = ClockValue(state[t].endAt)
             /\ state'[t].isRunning => state'[t].endAt = state[t].endAt
       /\ (state'[t].isRunning /\ ~state'[t].overtime /\ state'[t].endAt # 0
           /\ ~readonly'[t] /\ OnStorageEvent(t))
          => state'[t].remaining = ClockValue(state'[t].endAt)]_vars

\* tab A after a poll that came 15 s after the previous handler: 45 s are
\* left of the minute
C32_Witness ==
  /\ last = [op |-> "tick", tab |-> "A"]
  /\ RunningCountdown("A")
  /\ ~readonly["A"]
  /\ state["A"].endAt - now <= 45000
  /\ state["A"].endAt - now > 44000
  /\ state["A"].remaining = 45

\* C33: extend(N, autostart) changes nothing while the timer is running;
\* while it is not running (and the lease check lets the action through) it
\* sets remaining to min(4h, max(0, remaining + N)) and clears overtime, and
\* with autostart it then starts the timer from that value, so that 300 s
\* more from Finished give a running countdown with deadline now + 300000.
C33_ExtendPostcondition ==
  [][\A t \in Tabs : \A extra \in Extras, autostart \in BOOLEAN :
       (state[t] # NullState /\ ExtendWith(t, extra, autostart))
       => IF state[t].isRunning
          THEN /\ state'[t] = state[t]
               /\ tickHandle'[t] = tickHandle[t]
               /\ stored' = stored
          ELSE LeasedElsewhere(t) \/
               LET next == Min(4 * 3600, Max(0, state[t].remaining + extra))
                   r == IF next > 0 THEN next ELSE state[t].defaultSeconds
               IN  /\ ~state'[t].overtime
                   /\ state'[t].overtimeStartAt = 0
                   /\ state'[t].defaultSeconds = state[t].defaultSeconds
                   /\ IF autostart
                      THEN /\ state'[t].isRunning
                           /\ state'[t].remaining = r
                           /\ state'[t].endAt = now + r * 1000
                           /\ tickHandle'[t]
                      ELSE /\ ~state'[t].isRunning
                           /\ state'[t].remaining = next
                           /\ state'[t].endAt = state[t].endAt]_vars

\* tab A right after 300 s more, with autostart, on a timer that had no
\* time left
C33_Witness ==
  /\ last = [op |-> "extend", tab |-> "A"]
  /\ RunningCountdown("A")
  /\ state["A"].defaultSeconds = 60
  /\ state["A"].remaining = 300
  /\ state["A"].endAt = now + 300000
  /\ tickHandle["A"]
  /\ toast["A"] = "hidden"

\* C34: adjust(+60 or -60) changes nothing while the timer is running; while
\* it is not running (and the lease check lets the action through) it sets
\* remaining to the old value plus the delta, clamped to [0, 4h], sets
\* overtime = false and overtimeStartAt = null, and leaves isRunning,
\* deadlineAt and defaultSeconds as they were.
C34_AdjustPostcondition ==
  [][\A t \in Tabs : \A delta \in {-60, 60} :
       (state[t] # NullState /\ AdjustWith(t, delta))
       => IF state[t].isRunning
          THEN /\ state'[t] = state[t]
               /\ tickHandle'[t] = tickHandle[t]
               /\ stored' = stored
          ELSE LeasedElsewhere(t) \/
               LET sum == state[t].remaining + delta
               IN  /\ state'[t].remaining =
                        (IF sum < 0 THEN 0 ELSE IF sum > 4 * 3600 THEN 4 * 3600 ELSE sum)
                   /\ ~state'[t].overtime
                   /\ state'[t].overtimeStartAt = 0
                   /\ ~state'[t].isRunning
                   /\ state'[t].endAt = state[t].endAt
                   /\ state'[t].defaultSeconds = state[t].defaultSeconds]_vars

\* tab A right after one minute was added to an idle timer of one minute
C34_Witness ==
  /\ last = [op |-> "adjust", tab |-> "A"]
  /\ ~state["A"].isRunning
  /\ state["A"].defaultSeconds = 60
  /\ state["A"].remaining = 120
  /\ state["A"].endAt = 0
  /\ ~state["A"].overtime
  /\ stored = state["A"]

\* finish() runs in tab t: a poll, a page event or a visibility event finds
\* the deadline of the running countdown reached
FinishRuns(t) ==
  /\ RunningCountdown(t)
  /\ now >= state[t].endAt
  /\ \/ OnInterval(t)
     \/ OnVisibilityChange(t)
     \/ OnConfigureEnabled(t, OneTarget)

\* C35: whatever fails in the audio or vibration step of finish (no audio
\* API, the context cannot be created, resume fails or throws, the context
\* stays suspended, no vibration), the state is finished (isRunning = false,
\* remaining = 0), the finished notice is shown and the finished
\* notification is raised, as when the alert succeeds; and the alert is
\* attempted only if alarmEnabled is true.
C35_AlertFailuresSwallowed ==
  [][\A t \in SoloTabs :
       FinishRuns(t)
       => /\ ~state'[t].isRunning
          /\ state'[t].remaining = 0
          /\ toast'[t] = "finished"
          /\ finishes'[t] = finishes[t] + 1
          /\ alarm'[t].attempted = state[t].alarmEnabled]_vars

\* a configure event of a page with the autostart flag: boot of a loaded
\* page, DOMContentLoaded, htmx:afterSwap, htmx:afterSettle
AutostartEvent(t) ==
  \E enabled \in BOOLEAN, target \in Targets :
     \/ ConfigureWith(t, enabled, target, TRUE)
     \/ ReloadWith(t, enabled, target, TRUE)

\* C36: autostart happens only on the first activation of a key without
\* persisted state.  With working storage the state of a tab is persisted as
\* soon as it exists, and a configure event of a page with the autostart
\* flag that finds a persisted state which is not running (paused, reset,
\* finished or never started) leaves the timer not running.
C36_AutostartOnlyWithoutState ==
  [][\A t \in SoloTabs :
       /\ state[t] # NullState => stored # NullState
       /\ (AutostartEvent(t) /\ stored # NullState /\ ~stored.isRunning)
          => /\ ~state'[t].isRunning
             /\ ~stored'.isRunning
             /\ ~tickHandle'[t]]_vars

\* after a page load with the autostart flag the finished timer is still
\* finished
C36_Witness ==
  /\ last = [op |-> "reload", tab |-> "A"]
  /\ state["A"] # NullState
  /\ ~state["A"].isRunning
  /\ state["A"].remaining = 0
  /\ toast["A"] = "hidden"
  /\ finishes["A"] = 1
  /\ stored = state["A"]

\* the position of the container and the position slot
Placement(w) == <<w.left, w.top, w.corner, w.offsetX, w.offsetY>>

\* C37: for a pointer that went down on the card outside the interactive
\* controls: as long as it has never been 6px or more away from its start,
\* its moves and its release leave the position of the widget and the saved
\* position unchanged, and the click that follows the release toggles a
\* minimized widget; once it has been 6px or more away, its release saves a
\* nearest corner with the offset of the widget from it, and the click that
\* follows does not toggle the minimized view.
C37_ClickOrDrag ==
  [][\A t \in SoloTabs :
       /\ \A p \in Pointers :
             /\ (gesture.down[p] /\ ~gesture.far[p]
                 /\ (OnCardPointerMove(t, p) \/ OnCardPointerUp(t, p))
                 /\ ~gesture'.far[p])
                => Placement(widget') = Placement(widget)
             /\ (gesture.down[p] /\ gesture.far[p] /\ OnCardPointerUp(t, p))
                => \A sz \in Sizes :
                      SnappedFrom(widget'.left, widget'.top, widget',
                                  getCornerAnchors(sz[1], sz[2], widget.vw, widget.vh))
       /\ (gesture.released = "tap" /\ widget.minimized /\ CardClickWith(t, FALSE))
          => ~widget'.minimized
       /\ (gesture.released = "drag" /\ CardClickWith(t, FALSE))
          => widget'.minimized = widget.minimized]_vars
====
